---- MODULE Spec2Model ----
(***************************************************************************)
(* A model of flagbind.Bind (src/bind.go): the reflective traversal of a   *)
(* struct's fields that declares one flag per leaf field on a flag         *)
(* registry, with the tag grammar of src/flagtag.go.                       *)
(*                                                                         *)
(* Go strings are sequences of one-character strings, so that the tag      *)
(* parser and FromCamelCase work on characters as the code does.  Struct   *)
(* field indices are 1-based here (0-based in Go).                         *)
(***************************************************************************)
EXTENDS Integers, Sequences, FiniteSets, TLC

----------------------------------------------------------------------------
(* strings, unicode: the library functions the code calls                  *)

UpperRunes == <<"A","B","C","D","E","F","G","H","I","J","K","L","M",
                "N","O","P","Q","R","S","T","U","V","W","X","Y","Z">>

LowerRunes == <<"a","b","c","d","e","f","g","h","i","j","k","l","m",
                "n","o","p","q","r","s","t","u","v","w","x","y","z">>

IsUpper(r) == \E k \in DOMAIN UpperRunes : UpperRunes[k] = r

ToLowerRune(r) ==
    IF IsUpper(r)
    THEN LowerRunes[CHOOSE k \in DOMAIN UpperRunes : UpperRunes[k] = r]
    ELSE r

ToLower(s) == [k \in DOMAIN s |-> ToLowerRune(s[k])]

WhiteSpace == {" ", "\t", "\n", "\r"}

IsDigit(r) == r \in {"0","1","2","3","4","5","6","7","8","9"}

DigitVal(r) ==
    CASE r = "0" -> 0 [] r = "1" -> 1 [] r = "2" -> 2 [] r = "3" -> 3
      [] r = "4" -> 4 [] r = "5" -> 5 [] r = "6" -> 6 [] r = "7" -> 7
      [] r = "8" -> 8 [] r = "9" -> 9

DigitRune(d) == <<"0","1","2","3","4","5","6","7","8","9">>[d + 1]

\* strings.HasPrefix / strings.HasSuffix
HasPrefix(s, p) == Len(p) <= Len(s) /\ SubSeq(s, 1, Len(p)) = p

HasSuffix(s, p) ==
    Len(p) <= Len(s) /\ SubSeq(s, Len(s) - Len(p) + 1, Len(s)) = p

\* strings.Contains
Contains(s, sub) ==
    \E k \in 1..(Len(s) - Len(sub) + 1) : SubSeq(s, k, k + Len(sub) - 1) = sub

\* strings.TrimLeft(s, cutset), cutset given as a set of characters
RECURSIVE TrimLeft(_, _)
TrimLeft(s, cutset) ==
    IF s # <<>> /\ Head(s) \in cutset THEN TrimLeft(Tail(s), cutset) ELSE s

RECURSIVE TrimRight(_, _)
TrimRight(s, cutset) ==
    IF s # <<>> /\ s[Len(s)] \in cutset
    THEN TrimRight(SubSeq(s, 1, Len(s) - 1), cutset)
    ELSE s

\* strings.TrimSpace
TrimSpace(s) == TrimRight(TrimLeft(s, WhiteSpace), WhiteSpace)

\* strings.Split(s, sep) for a one-character sep: n separators give n+1 parts
RECURSIVE SplitFrom(_, _, _, _)
SplitFrom(s, sep, k, cur) ==
    IF k > Len(s) THEN <<cur>>
    ELSE IF s[k] = sep THEN <<cur>> \o SplitFrom(s, sep, k + 1, <<>>)
    ELSE SplitFrom(s, sep, k + 1, Append(cur, s[k]))

Split(s, sep) == SplitFrom(s, sep, 1, <<>>)

----------------------------------------------------------------------------
(* src/flagtag.go                                                          *)

\* FromCamelCase's loop without "add last char after separator": the last
\* capital of a run is not taken for the start of the next word
RECURSIVE FromCamelCaseLoopNoSplit(_, _, _, _, _)
FromCamelCaseLoopNoSplit(name, sep, k, kebab, acronym) ==
    IF k > Len(name)
    THEN (IF kebab # <<>> /\ acronym # <<>> THEN kebab \o sep ELSE kebab)
         \o acronym
    ELSE LET r == name[k] IN
         IF IsUpper(r)
         THEN FromCamelCaseLoopNoSplit(name, sep, k + 1, kebab,
                                       Append(acronym, ToLowerRune(r)))
         ELSE IF acronym # <<>>
         THEN FromCamelCaseLoopNoSplit(name, sep, k + 1,
                  (IF kebab # <<>> THEN kebab \o sep ELSE kebab)
                  \o acronym \o <<r>>,
                  <<>>)
         ELSE FromCamelCaseLoopNoSplit(name, sep, k + 1, Append(kebab, r), <<>>)

\* FromCamelCase's loop: the state after the runes name[k..] are consumed
RECURSIVE FromCamelCaseLoop(_, _, _, _, _)
FromCamelCaseLoop(name, sep, k, kebab, acronym) ==
    IF k > Len(name)
    THEN (IF kebab # <<>> /\ acronym # <<>> THEN kebab \o sep ELSE kebab)
         \o acronym
    ELSE LET r == name[k] IN
         IF IsUpper(r)
         THEN FromCamelCaseLoop(name, sep, k + 1, kebab,
                                Append(acronym, ToLowerRune(r)))
         ELSE IF Len(acronym) > 1
         THEN FromCamelCaseLoop(name, sep, k + 1,
                  (IF kebab # <<>> THEN kebab \o sep ELSE kebab)
                  \o SubSeq(acronym, 1, Len(acronym) - 1)
                  \o sep \o <<acronym[Len(acronym)]>> \o <<r>>,
                  <<>>)
         ELSE IF acronym # <<>>
         THEN FromCamelCaseLoop(name, sep, k + 1,
                  (IF kebab # <<>> THEN kebab \o sep ELSE kebab)
                  \o acronym \o <<r>>,
                  <<>>)
         ELSE FromCamelCaseLoop(name, sep, k + 1, Append(kebab, r), <<>>)

\* FromCamelCase that ends with kebab += sep also when kebab is empty: it
\* differs for a name of capitals only
FromCamelCaseSepFirst(name, sep) ==
    IF name # <<>> /\ \A k \in DOMAIN name : IsUpper(name[k])
    THEN sep \o ToLower(name)
    ELSE FromCamelCaseLoop(name, sep, 1, <<>>, <<>>)

FromCamelCase(name, sep) == FromCamelCaseLoop(name, sep, 1, <<>>, <<>>)

\* the zero flagTag
ZeroTag ==
    [Name |-> <<>>, ShortName |-> <<>>, HasExplicitName |-> FALSE,
     IsIgnored |-> FALSE, DefValue |-> <<>>, Usage |-> <<>>,
     HideDefault |-> FALSE, Hidden |-> FALSE, Flatten |-> FALSE]

\* parseNames without "Ensure Name is longer than ShortName."
parseNamesNoSort(fTag, name) ==
    LET names == Split(name, ",")
        n1    == TrimLeft(names[1], {"-"})
        s1    == IF Len(names) > 1 THEN TrimLeft(names[2], {"-"}) ELSE <<>>
        s2    == IF Len(s1) > 1 THEN <<>> ELSE s1
        s3    == IF Len(n1) = 1 THEN n1 ELSE s2
    IN  [fTag EXCEPT !.Name = n1, !.ShortName = s3,
                     !.HasExplicitName = (n1 # <<>>)]

\* parseNames with "If short name is too long, censor it." before the sort
parseNamesCensorFirst(fTag, name) ==
    LET names == Split(name, ",")
        n0    == TrimLeft(names[1], {"-"})
        s0    == IF Len(names) > 1 THEN TrimLeft(names[2], {"-"}) ELSE <<>>
        s1    == IF Len(s0) > 1 THEN <<>> ELSE s0
        swap  == Len(n0) < Len(s1)
        n2    == IF swap THEN s1 ELSE n0
        s2    == IF swap THEN n0 ELSE s1
        s3    == IF Len(n2) = 1 THEN n2 ELSE s2
    IN  [fTag EXCEPT !.Name = n2, !.ShortName = s3,
                     !.HasExplicitName = (n2 # <<>>)]

\* parseNames without "If short name is too long, censor it."
parseNamesNoCensor(fTag, name) ==
    LET names == Split(name, ",")
        n0    == TrimLeft(names[1], {"-"})
        s0    == IF Len(names) > 1 THEN TrimLeft(names[2], {"-"}) ELSE <<>>
        swap  == Len(n0) < Len(s0)
        n1    == IF swap THEN s0 ELSE n0
        s1    == IF swap THEN n0 ELSE s0
        s3    == IF Len(n1) = 1 THEN n1 ELSE s1
    IN  [fTag EXCEPT !.Name = n1, !.ShortName = s3,
                     !.HasExplicitName = (n1 # <<>>)]

\* flagTag.parseNames
parseNames(fTag, name) ==
    LET names == Split(name, ",")
        n0    == TrimLeft(names[1], {"-"})
        s0    == IF Len(names) > 1 THEN TrimLeft(names[2], {"-"}) ELSE <<>>
        swap  == Len(n0) < Len(s0)
        n1    == IF swap THEN s0 ELSE n0
        s1    == IF swap THEN n0 ELSE s0
        s2    == IF Len(s1) > 1 THEN <<>> ELSE s1
        s3    == IF Len(n1) = 1 THEN n1 ELSE s2
    IN  [fTag EXCEPT !.Name = n1, !.ShortName = s3,
                     !.HasExplicitName = (n1 # <<>>)]

\* parseOptions without strings.ToLower
parseOptionsCaseSensitive(fTag, opts) ==
    [fTag EXCEPT !.Hidden      = Contains(opts, <<"h","i","d","d","e","n">>),
                 !.HideDefault = Contains(opts, <<"h","i","d","e","-","d","e","f","a","u","l","t">>),
                 !.Flatten     = Contains(opts, <<"f","l","a","t","t","e","n">>)]

\* flagTag.parseOptions
parseOptions(fTag, opts) ==
    LET o == ToLower(opts)
    IN  [fTag EXCEPT !.Hidden      = Contains(o, <<"h","i","d","d","e","n">>),
                     !.HideDefault = Contains(o, <<"h","i","d","e","-","d","e","f","a","u","l","t">>),
                     !.Flatten     = Contains(o, <<"f","l","a","t","t","e","n">>)]

\* newFlagTag that takes a tag for ignored only when "-" is all of it
newFlagTagWholeDash(tag) ==
    IF tag = <<>> THEN ZeroTag
    ELSE IF tag = <<"-">> THEN [ZeroTag EXCEPT !.IsIgnored = TRUE]
    ELSE LET args == Split(tag, ";")
             t1   == parseNames(ZeroTag, args[1])
             t2   == IF Len(args) >= 2
                     THEN [t1 EXCEPT !.DefValue = args[2]] ELSE t1
             t3   == IF Len(args) >= 3
                     THEN [t2 EXCEPT !.Usage = TrimSpace(args[3])] ELSE t2
         IN  IF Len(args) >= 4 THEN parseOptions(t3, args[4]) ELSE t3

newFlagTag(tag) ==
    IF tag = <<>> THEN ZeroTag
    ELSE LET args == Split(tag, ";") IN
         IF args[1] = <<"-">> THEN [ZeroTag EXCEPT !.IsIgnored = TRUE]
         ELSE LET t1 == parseNames(ZeroTag, args[1])
                  t2 == IF Len(args) >= 2
                        THEN [t1 EXCEPT !.DefValue = args[2]] ELSE t1
                  t3 == IF Len(args) >= 3
                        THEN [t2 EXCEPT !.Usage = TrimSpace(args[3])] ELSE t2
              IN  IF Len(args) >= 4 THEN parseOptions(t3, args[4]) ELSE t3

----------------------------------------------------------------------------
(* Field values.  One record shape for every kind, so that any two values  *)
(* can be compared: k is the kind, and b, n or s holds the value.          *)

V(k, b, n, s) == [k |-> k, b |-> b, n |-> n, s |-> s]

BoolV(b)   == V("bool", b, 0, <<>>)
IntV(n)    == V("int", FALSE, n, <<>>)
StringV(s) == V("string", FALSE, 0, s)
NilV       == V("nil", FALSE, 0, <<>>)     \* a nil pointer
StructV    == V("struct", FALSE, 0, <<>>)  \* a struct value, its fields below it

\* The kinds of leaf type of the model:
\*   bool, int, string   types both registries have a primitive for
\*   float32             a type only the extended registry has a primitive for
\*   value               TestValue, a bool that implements flag.Value
\*   unsupported         UnsupportedType, a named int: no primitive at all
LeafKinds == {"bool", "int", "string", "float32", "value", "unsupported"}

\* the zero value of a leaf kind
Zero(k) == V(k, FALSE, 0, <<>>)

\* reflect.Value.IsZero
IsZero(v) == v = Zero(v.k)

\* strconv.Itoa on a natural number
RECURSIVE Itoa(_)
Itoa(n) == IF n < 10 THEN <<DigitRune(n)>>
           ELSE Append(Itoa(n \div 10), DigitRune(n % 10))

\* strconv.Atoi on a string of decimal digits (the model's numeric literals
\* carry no sign, base prefix or underscore); -1 when s is no such string
RECURSIVE AtoiFrom(_, _, _)
AtoiFrom(s, k, acc) ==
    IF k > Len(s) THEN acc
    ELSE IF IsDigit(s[k]) THEN AtoiFrom(s, k + 1, acc * 10 + DigitVal(s[k]))
    ELSE -1

Atoi(s) == IF s = <<>> THEN -1 ELSE AtoiFrom(s, 1, 0)

\* the String method of the flag's Value: what the registry records as the
\* display default (DefValue) when the flag is defined
String(v) ==
    CASE v.k \in {"bool", "value"} -> IF v.b THEN <<"t","r","u","e">> ELSE <<"f","a","l","s","e">>
      [] v.k \in {"int", "float32", "unsupported"} -> Itoa(v.n)
      [] OTHER -> v.s

\* strconv.ParseBool
ParseBoolTrue  == {<<"1">>, <<"t">>, <<"T">>, <<"T","R","U","E">>, <<"t","r","u","e">>, <<"T","r","u","e">>}

ParseBoolFalse == {<<"0">>, <<"f">>, <<"F">>, <<"F","A","L","S","E">>, <<"f","a","l","s","e">>, <<"F","a","l","s","e">>}

\* the Set method of the flag's Value for a field of kind k, given the text:
\* ok tells whether the text was accepted and v is the value then stored
ValueSet(k, text) ==
    CASE k = "bool" ->
           [ok |-> text \in ParseBoolTrue \cup ParseBoolFalse,
            v  |-> BoolV(text \in ParseBoolTrue)]
      [] k = "value" ->
           [ok |-> ToLower(text) \in {<<"t","r","u","e">>, <<"f","a","l","s","e">>},
            v  |-> V("value", ToLower(text) = <<"t","r","u","e">>, 0, <<>>)]
      [] k \in {"int", "float32"} ->
           [ok |-> Atoi(text) >= 0,
            v  |-> V(k, FALSE, IF Atoi(text) >= 0 THEN Atoi(text) ELSE 0, <<>>)]
      [] OTHER -> [ok |-> TRUE, v |-> StringV(text)]

\* whether Set stores v: the values of flag and pflag assign what strconv
\* returned, zero after an error, before they return the error; TestValue
\* returns its error without assigning
Stores(k, text) == k = "value" => ValueSet(k, text).ok

----------------------------------------------------------------------------
(* Struct types: what reflect reports of each field                        *)

\* a field of leaf kind k, untagged
Fld(name, k) ==
    [Name |-> name, Kind |-> k, Elem |-> "", Ptr |-> FALSE,
     Anonymous |-> FALSE, hasTag |-> FALSE, Tag |-> <<>>,
     hasUse |-> FALSE, Use |-> <<>>]

\* a field of struct type T
Sub(name, T) == [Fld(name, "struct") EXCEPT !.Elem = T]

\* an embedded field of struct type T; its name is the type's name
Emb(name, T) == [Sub(name, T) EXCEPT !.Anonymous = TRUE]

\* the same field behind a pointer
PtrTo(f) == [f EXCEPT !.Ptr = TRUE]

\* the field with a `flag:"..."` tag
Tag(f, t) == [f EXCEPT !.hasTag = TRUE, !.Tag = t]

\* a blank-identifier field, `_ struct{}`
Blank == Fld(<<"_">>, "empty")

\* a blank-identifier field with a `use:"..."` tag
Use(t) == [Blank EXCEPT !.hasUse = TRUE, !.Use = t]

\* type StructA struct { StructABool bool; custom bool }
StructA == <<Fld(<<"S","t","r","u","c","t","A","B","o","o","l">>, "bool"), Fld(<<"c","u","s","t","o","m">>, "bool")>>

\* type StructB struct { StructBBool bool }
StructB == <<Fld(<<"S","t","r","u","c","t","B","B","o","o","l">>, "bool")>>

\* http.Client, as far as Bind sees it: its Transport, an interface, has no
\* registration primitive; its Timeout is carried by the int kind
Client == <<Fld(<<"T","r","a","n","s","p","o","r","t">>, "unsupported"), Fld(<<"T","i","m","e","o","u","t">>, "int")>>

\* struct{}
Empty == <<>>

\* struct { Duplicate bool; Duplicate_ bool `flag:"duplicate"` }
Dup == <<Fld(<<"D","u","p","l","i","c","a","t","e">>, "bool"),
         Tag(Fld(<<"D","u","p","l","i","c","a","t","e","_">>, "bool"), <<"d","u","p","l","i","c","a","t","e">>)>>

\* a nested flag and a later field of the enclosing struct with its name
NestedDup == <<Sub(<<"N","e","s","t","e","d">>, "StructA"),
               Tag(Fld(<<"O","t","h","e","r">>, "bool"), <<"n","e","s","t","e","d","-","s","t","r","u","c","t","-","a","-","b","o","o","l">>)>>

\* the duplicate one level down
DupInside == <<Fld(<<"F","i","r","s","t">>, "int"), Sub(<<"E">>, "Dup")>>

\* the default-value fields of ValidTestFlags; the literal of ValueDefault
\* is capitalised here, which TestValue.Set accepts as well
Defaults ==
    <<Tag(Fld(<<"D","e","f","a","u","l","t","I","n","h","e","r","i","t","O","v","e","r","r","i","d","e">>, "int"), <<";","4","1">>),
      Tag(PtrTo(Fld(<<"P","t","r","D","e","f","a","u","l","t","I","n","h","e","r","i","t","O","v","e","r","r","i","d","e">>, "int")), <<";","4","0">>),
      Tag(Fld(<<"D","e","f","a","u","l","t">>, "bool"), <<";","t","r","u","e">>),
      Tag(Fld(<<"H","i","d","e","D","e","f","a","u","l","t">>, "string"),
          <<";","d","e","f","a","u","l","t"," ","v","a","l","u","e",";","H","i","d","e"," ","d","e","f","a","u","l","t",";","h","i","d","e","-","d","e","f","a","u","l","t">>),
      Tag(Fld(<<"V","a","l","u","e","D","e","f","a","u","l","t">>, "value"), <<";","T","r","u","e",";">>)>>

\* struct { Value TestValue `flag:";asdf;"` }
BadDefault == <<Tag(Fld(<<"V","a","l","u","e">>, "value"), <<";","a","s","d","f",";">>)>>

\* a good default before the bad one, and a field after it
BadSecond == <<Tag(Fld(<<"I","n","t">>, "int"), <<";","5">>),
               Tag(Fld(<<"N","u","m","b","e","r">>, "int"), <<"n","u","m",";","f","i","v","e">>),
               Fld(<<"L","a","s","t">>, "bool")>>

\* struct { E struct { Value TestValue `flag:";asdf;"` } }
NestedBad == <<Sub(<<"E">>, "BadDefault")>>

\* three levels around the failing field: A.B.C
DeepA == <<Sub(<<"A">>, "DeepB")>>

DeepB == <<Sub(<<"B">>, "DeepC")>>

DeepC == <<PtrTo(Sub(<<"C">>, "BadDefault"))>>

\* a struct whose only fields are nested structs
OnlyNested == <<Sub(<<"F","i","r","s","t">>, "Empty"), PtrTo(Sub(<<"S","e","c","o","n","d">>, "StructB"))>>

\* struct { _ struct{} `flag:"undefined;true"`; Undefined bool }
OverrideBefore == <<Tag(Blank, <<"u","n","d","e","f","i","n","e","d",";","t","r","u","e">>), Fld(<<"U","n","d","e","f","i","n","e","d">>, "bool")>>

\* the overriding tags of ValidTestFlags
OverrideAfter ==
    <<PtrTo(Sub(<<"N","e","s","t","e","d">>, "StructA")),
      Tag(Sub(<<"N","e","s","t","e","d","F","l","a","t">>, "StructB"), <<";",";",";","f","l","a","t","t","e","n">>),
      Tag(Blank, <<"s","t","r","u","c","t","-","b","-","b","o","o","l",";",";","S","t","r","u","c","t","B","B","o","o","l">>),
      Use(<<"c","o","n","t","i","n","u","e","d">>),
      Use(<<"t","w","i","c","e">>),
      Tag(Blank, <<"s","t","r","u","c","t","-","b","-","b","o","o","l",";","t","r","u","e",";",";","h","i","d","e","-","d","e","f","a","u","l","t">>),
      Tag(Blank, <<"n","e","s","t","e","d","-","s","t","r","u","c","t","-","a","-","b","o","o","l",";","t","r","u","e",";",";","h","i","d","d","e","n",",","h","i","d","e","-","d","e","f","a","u","l","t">>)>>

\* an override that names a nested flag without its prefix
OverrideNoPrefix == <<Sub(<<"N","e","s","t","e","d">>, "StructA"),
                      Tag(Blank, <<"s","t","r","u","c","t","-","a","-","b","o","o","l",";","t","r","u","e">>)>>

\* an override inside a struct: right when the struct is bound itself, short
\* of the prefix when the struct is nested
InnerOverride == <<Fld(<<"L","e","v","e","l">>, "int"), Tag(Blank, <<"l","e","v","e","l",";","7">>)>>

OuterOverride == <<Sub(<<"I","n">>, "InnerOverride")>>

\* ignored and unexported fields, and a tag that only starts with a dash
Ignore ==
    <<Tag(Fld(<<"I","g","n","o","r","e","d">>, "bool"), <<"-">>),
      Tag(Sub(<<"I","g","n","o","r","e","d","N","e","s","t","e","d">>, "StructA"), <<"-",";",";",";","f","l","a","t","t","e","n">>),
      Tag(PtrTo(Sub(<<"I","g","n","o","r","e","d","P","t","r">>, "StructB")), <<"-",";","1",";","u","s","e">>),
      Fld(<<"s","k","i","p">>, "bool"),
      Tag(Fld(<<"W","i","t","h","D","a","s","h">>, "bool"), <<"-","w","i","t","h","-","d","a","s","h">>),
      Tag(Fld(<<"D","a","s","h","e","s">>, "bool"), <<"-",",","-","-">>)>>

\* the nested and embedded structs of ValidTestFlags
Prefixes ==
    <<PtrTo(Sub(<<"N","e","s","t","e","d">>, "StructA")),
      Tag(Sub(<<"N","e","s","t","e","d","F","l","a","t">>, "StructB"), <<";",";",";","f","l","a","t","t","e","n">>),
      Emb(<<"S","t","r","u","c","t","A">>, "StructA"),
      Tag(Emb(<<"S","t","r","u","c","t","B">>, "StructB"), <<"e","m","b","e","d","d","e","d">>)>>

\* struct { http.Client }
EmbClient == <<Emb(<<"C","l","i","e","n","t">>, "Client")>>

\* flatten next to an explicit name, on a nested and on an embedded struct
FlattenNamed ==
    <<Tag(Sub(<<"N","a","m","e","d">>, "StructB"), <<"n","a","m","e","d",";",";",";","f","l","a","t","t","e","n">>),
      Tag(Emb(<<"S","t","r","u","c","t","A">>, "StructA"), <<"e","m","b",";",";",";","f","l","a","t","t","e","n">>)>>

\* extended usage, as ValidTestFlags and the Bind doc have it: a flag with an
\* empty tag usage and two use fields; a tag usage with two use fields, the
\* second of which carries a flag tag as well; a blank field without a use
\* tag, which ends the scan; and use fields after fields that load no usage
ExtUsage ==
    <<Tag(Fld(<<"E","x","t","e","n","d","e","d","U","s","a","g","e">>, "bool"), <<";",";">>),
      Use(<<"E","x","t","e","n","d","e","d"," ","u","s","a","g","e",","," ">>),
      Use(<<"c","o","n","t","i","n","u","e"," ","u","s","a","g","e">>),
      Tag(Fld(<<"U","s","a","g","e">>, "bool"), <<"u","r","l",";",";","U","s","a","g","e"," ","s","t","a","r","t","s"," ","h","e","r","e">>),
      Use(<<"a","n","d"," ","c","o","n","t","i","n","u","e","s"," ","h","e","r","e">>),
      Tag(Use(<<"a","n","d"," ","e","n","d","s"," ","h","e","r","e",".">>), <<"u","r","l",";",";","R","e","p","l","a","c","e","d">>),
      Tag(Fld(<<"H","i","d","e","D","e","f","a","u","l","t">>, "string"), <<";",";","H","i","d","e"," ","d","e","f","a","u","l","t",";","h","i","d","e","-","d","e","f","a","u","l","t">>),
      Blank,
      Use(<<"s","t","r","a","y">>),
      Fld(<<"s","k","i","p">>, "bool"),
      Use(<<"a","f","t","e","r"," ","s","k","i","p">>)>>

\* the name fields of ValidTestFlags, an untagged AutoKebabCase, and a tag
\* with two one-letter names
Names ==
    <<Fld(<<"A","u","t","o","K","e","b","a","b","C","a","s","e">>, "int"),
      Tag(Fld(<<"S","h","o","r","t">>, "bool"), <<"s">>),
      Tag(Fld(<<"L","o","n","g","S","h","o","r","t">>, "bool"), <<"l","o","n","g",",","l">>),
      Tag(Fld(<<"S","h","o","r","t","L","o","n","g">>, "bool"), <<"r",",","-","r","l","o","n","g">>),
      Tag(Fld(<<"C","u","s","t","o","m","N","a","m","e">>, "bool"), <<"d","i","f","f","e","r","e","n","t","-","f","l","a","g","-","n","a","m","e">>),
      Tag(Fld(<<"W","i","t","h","T","w","o","D","a","s","h">>, "bool"), <<"-","-","w","i","t","h","-","t","w","o","-","d","a","s","h">>),
      Tag(Fld(<<"B","o","t","h">>, "bool"), <<"a",",","b">>)>>

\* fields of types without a registration primitive, with default literals:
\* UnsupportedType and, for the flag package, float32
Unsupp ==
    <<Tag(Fld(<<"U","n","s","u","p","p","o","r","t","e","d">>, "unsupported"), <<";","5">>),
      Tag(PtrTo(Fld(<<"F","l","o","a","t","3","2">>, "float32")), <<";","2">>),
      Fld(<<"A","f","t","e","r">>, "bool")>>

\* an override of a flag that the same struct defines with a tag default
OverrideOwnDefault ==
    <<Tag(Fld(<<"L","e","v","e","l">>, "int"), <<";","5">>), Tag(Blank, <<"l","e","v","e","l",";","7">>)>>

\* two overrides of one flag, the first with usage and its continuation
OverrideTwice ==
    <<Fld(<<"L","e","v","e","l">>, "int"),
      Tag(Blank, <<"l","e","v","e","l",";","7",";","f","i","r","s","t">>),
      Use(<<"m","o","r","e">>),
      Tag(Blank, <<"l","e","v","e","l",";","8">>)>>

\* a flag hidden by its field's tag, and an override that does not list
\* hidden
Unhide == <<Tag(Fld(<<"S","e","c","r","e","t">>, "bool"), <<"s","e","c","r","e","t",";",";",";","h","i","d","d","e","n">>),
            Tag(Blank, <<"s","e","c","r","e","t",";",";","s","h","o","w","n">>)>>

\* overrides with default literals that the values of their flags reject
RejectedOverride ==
    <<Fld(<<"L","e","v","e","l">>, "int"),
      Fld(<<"V","a","l">>, "value"),
      Fld(<<"A","f","t","e","r">>, "bool"),
      Tag(Blank, <<"l","e","v","e","l",";","x">>),
      Tag(Blank, <<"v","a","l",";","a","s","d","f">>),
      Tag(Blank, <<"a","f","t","e","r",";","m","a","y","b","e",";",";","h","i","d","e","-","d","e","f","a","u","l","t">>)>>

\* flattened and embedded structs one level down, below a prefix
FlatInside == <<Sub(<<"O","u","t","e","r">>, "FlattenNamed")>>

\* a struct type that refers to itself through a pointer field:
\* type Node struct { Value int; Next *Node }
Node == <<Fld(<<"V","a","l","u","e">>, "int"), PtrTo(Sub(<<"N","e","x","t">>, "Node"))>>

\* a type with a FlagBind method, as ValidTestFlags has
BinderT == <<Fld(<<"F","l","a","g">>, "bool"), Fld(<<"c","u","s","t","o","m">>, "bool")>>

\* a struct with a field that implements Binder
HasBinder == <<Fld(<<"B","e","f","o","r","e">>, "bool"), Sub(<<"B","o","u","n","d">>, "BinderT")>>

\* the struct types that implement Binder (through their pointer)
BinderTypes == {"BinderT"}

\* reflect.Type.Field(i), for i in 1..NumField
Fields(T) ==
    CASE T = "StructA"          -> StructA
      [] T = "StructB"          -> StructB
      [] T = "Client"           -> Client
      [] T = "Empty"            -> Empty
      [] T = "Dup"              -> Dup
      [] T = "NestedDup"        -> NestedDup
      [] T = "DupInside"        -> DupInside
      [] T = "Defaults"         -> Defaults
      [] T = "BadDefault"       -> BadDefault
      [] T = "BadSecond"        -> BadSecond
      [] T = "NestedBad"        -> NestedBad
      [] T = "DeepA"            -> DeepA
      [] T = "DeepB"            -> DeepB
      [] T = "DeepC"            -> DeepC
      [] T = "OnlyNested"       -> OnlyNested
      [] T = "OverrideBefore"   -> OverrideBefore
      [] T = "OverrideAfter"    -> OverrideAfter
      [] T = "OverrideNoPrefix" -> OverrideNoPrefix
      [] T = "InnerOverride"    -> InnerOverride
      [] T = "OuterOverride"    -> OuterOverride
      [] T = "Ignore"           -> Ignore
      [] T = "Prefixes"         -> Prefixes
      [] T = "EmbClient"        -> EmbClient
      [] T = "FlattenNamed"     -> FlattenNamed
      [] T = "BinderT"          -> BinderT
      [] T = "HasBinder"        -> HasBinder
      [] T = "ExtUsage"         -> ExtUsage
      [] T = "Names"            -> Names
      [] T = "Unsupp"           -> Unsupp
      [] T = "OverrideOwnDefault" -> OverrideOwnDefault
      [] T = "OverrideTwice"    -> OverrideTwice
      [] T = "Node"             -> Node
      [] T = "FlatInside"       -> FlatInside
      [] T = "Unhide"           -> Unhide
      [] T = "RejectedOverride" -> RejectedOverride

NumField(T) == Len(Fields(T))

\* the struct types of the model
TypeNames ==
    {"StructA", "StructB", "Client", "Empty", "Dup", "NestedDup", "DupInside",
     "Defaults", "BadDefault", "BadSecond", "NestedBad", "DeepA", "DeepB",
     "DeepC", "OnlyNested", "OverrideBefore", "OverrideAfter",
     "OverrideNoPrefix", "InnerOverride", "OuterOverride", "Ignore",
     "Prefixes", "EmbClient", "FlattenNamed", "BinderT", "HasBinder",
     "ExtUsage", "Names", "Unsupp", "OverrideOwnDefault", "OverrideTwice",
     "Node", "FlatInside", "Unhide", "RejectedOverride"}

\* the struct types Bind is called on
Roots ==
    {"Empty", "Dup", "NestedDup", "DupInside", "Defaults", "BadDefault",
     "BadSecond", "NestedBad", "DeepA", "OnlyNested", "OverrideBefore",
     "OverrideAfter", "OverrideNoPrefix", "InnerOverride", "OuterOverride",
     "Ignore", "Prefixes", "EmbClient", "FlattenNamed", "BinderT",
     "HasBinder", "ExtUsage", "Names", "Unsupp", "OverrideOwnDefault",
     "OverrideTwice", "Node", "FlatInside", "Unhide", "RejectedOverride"}

\* what is passed as v: a pointer to a struct, one of the values the tests
\* ErrorInvalidType_* pass: true, new(int), nil, (*struct{})(nil), or a nil
\* pointer of a type that implements Binder: (*ValidTestFlags)(nil)
Targets == {"struct", "bool", "intptr", "nil", "nilptr", "nilbinder"}

----------------------------------------------------------------------------
(* The struct value v points to: one entry per field, keyed by the path of *)
(* field indices from the root; a nil pointer has nothing below it.        *)

RECURSIVE ZeroField(_, _, _)
RECURSIVE ZeroFields(_, _, _)
\* what reflect.New(struct type).Elem() holds for field k of a T at path
ZeroField(T, path, k) ==
    LET f == Fields(T)[k]
        p == Append(path, k)
    IN  IF f.Ptr THEN p :> NilV
        ELSE IF f.Kind = "struct" THEN (p :> StructV) @@ ZeroFields(f.Elem, p, 1)
        ELSE IF f.Kind = "empty" THEN p :> StructV
        ELSE p :> Zero(f.Kind)

\* ... and for its fields k, k+1, ...
ZeroFields(T, path, k) ==
    IF k > NumField(T) THEN <<>>
    ELSE ZeroField(T, path, k) @@ ZeroFields(T, path, k + 1)

\* fieldV.Set(reflect.New(fieldT)) for the nil pointer field f at p
New(f, p) ==
    IF f.Kind = "struct" THEN (p :> StructV) @@ ZeroFields(f.Elem, p, 1)
    ELSE IF f.Kind = "empty" THEN p :> StructV
    ELSE p :> Zero(f.Kind)

\* the values the tests set before Bind: DefaultInheritOverride: 43 and a
\* PtrDefaultInheritOverride pointing to 44
SampleInt == 43

PtrSampleInt == 44

Sample(f) ==
    CASE f.Kind \in {"bool", "value"} -> V(f.Kind, TRUE, 0, <<>>)
      [] f.Kind = "string" -> StringV(<<"s","e","t">>)
      [] OTHER -> V(f.Kind, FALSE, IF f.Ptr THEN PtrSampleInt ELSE SampleInt, <<>>)

\* how many fields of the root struct the caller has set before Bind
MaxPreset == 1

\* what the caller may have stored in field k of the root struct instead of
\* the zero value
Alternatives(T, k) ==
    LET f == Fields(T)[k]
        p == <<k>>
    IN  IF f.Kind \in LeafKinds
        THEN {p :> Sample(f)} \cup (IF f.Ptr THEN {p :> Zero(f.Kind)} ELSE {})
        ELSE IF f.Ptr THEN {New(f, p)} ELSE {}

RECURSIVE Presets(_, _, _)
\* the values of the fields k, k+1, ... of a root struct of type T of which
\* at most budget are set
Presets(T, k, budget) ==
    IF k > NumField(T) THEN {<<>>}
    ELSE {ZeroField(T, <<>>, k) @@ r : r \in Presets(T, k + 1, budget)}
         \cup (IF budget = 0 THEN {}
               ELSE {a @@ r : a \in Alternatives(T, k),
                              r \in Presets(T, k + 1, budget - 1)})

----------------------------------------------------------------------------
(* Errors: an error is the chain of layers errors.Unwrap walks, outermost  *)
(* first; nil is the empty chain.                                          *)

Nil == <<>>

Layer(kind, name, value) == [kind |-> kind, name |-> name, value |-> value]

\* ErrorInvalidType{v, nilPtr}
ErrorInvalidType(nilPtr) ==
    <<Layer("ErrorInvalidType", <<>>, IF nilPtr THEN <<"n","i","l">> ELSE <<>>)>>

ErrorInvalidFlagSet == <<Layer("ErrorInvalidFlagSet", <<>>, <<>>)>>

\* ErrorFlagOverrideUndefined{tag.Name}
ErrorFlagOverrideUndefined(name) ==
    <<Layer("ErrorFlagOverrideUndefined", name, <<>>)>>

\* ErrorDefaultValue without the error of fs.Set
ErrorDefaultValueNoErr(fieldName, value, err) ==
    <<Layer("ErrorDefaultValue", fieldName, value)>>

\* ErrorDefaultValue{FieldName, Value, Err}
ErrorDefaultValue(fieldName, value, err) ==
    <<Layer("ErrorDefaultValue", fieldName, value)>> \o err

\* fmt.Errorf("%v", msg): an error that wraps nothing
Errorf(msg) == <<Layer("errorString", <<>>, msg)>>

\* the error fs.Set returns when the flag's Value rejects the text
SetError(name, text) == <<Layer("SetError", name, text)>>

\* errors.Unwrap
Unwrap(err) == Tail(err)

\* errors.Is(err, target) for a target that wraps nothing
Is(err, target) == \E k \in DOMAIN err : err[k] = target[1]

\* newErrorNestedStruct(fieldName, err), as TestErrorNestedStructUnwrap
\* requires it: nested wrappers are merged into one dotted field path
newErrorNestedStruct(fieldName, err) ==
    IF err # Nil /\ err[1].kind = "ErrorNestedStruct"
    THEN <<Layer("ErrorNestedStruct", fieldName \o <<".">> \o err[1].name, <<>>)>>
         \o Unwrap(err)
    ELSE <<Layer("ErrorNestedStruct", fieldName, <<>>)>> \o err

\* the Error() text of the error types whose Error method is not part of the
\* sources at hand
OtherErrorText(layer) ==
    CASE layer.kind = "ErrorInvalidType" -> <<"i","n","v","a","l","i","d"," ","t","y","p","e">>
      [] layer.kind = "ErrorFlagOverrideUndefined" ->
           <<"u","n","d","e","f","i","n","e","d"," ","f","l","a","g",":"," ">> \o layer.name
      [] layer.kind = "SetError" -> <<"i","n","v","a","l","i","d"," ","v","a","l","u","e"," ">> \o layer.value
      [] OTHER -> <<>>

\* the message with the path and the text joined as path elements are
NestedStructTextDotted(fieldName, inner) == fieldName \o <<".">> \o inner

\* ErrorNestedStruct.Error on the field path and the text of the wrapped
\* error: fmt.Sprintf("%v: %v", err.FieldName, err.Err)
NestedStructText(fieldName, inner) == fieldName \o <<":"," ">> \o inner

\* ErrorDefaultValue.Error
DefaultValueText(fieldName, value) ==
    fieldName \o <<":"," ","c","a","n","n","o","t"," ","a","s","s","i","g","n"," ","d","e","f","a","u","l","t"," ","v","a","l","u","e"," ","f","r","o","m"," ","t","a","g",":"," ">>
              \o <<"\"">> \o value \o <<"\"">>

RECURSIVE Error(_)
\* err.Error()
Error(err) ==
    CASE err[1].kind = "ErrorNestedStruct" ->
           NestedStructText(err[1].name, Error(Unwrap(err)))
      [] err[1].kind = "ErrorDefaultValue" ->
           DefaultValueText(err[1].name, err[1].value)
      [] err[1].kind = "ErrorInvalidFlagSet" ->
           <<"f","l","g"," ","m","u","s","t"," ","i","m","p","l","e","m","e","n","t"," ","S","T","D","F","l","a","g","S","e","t"," ","o","r"," ","P","F","l","a","g","S","e","t">>
      [] err[1].kind = "errorString" -> err[1].value
      [] OTHER -> OtherErrorText(err[1])

----------------------------------------------------------------------------
(* State                                                                   *)

VARIABLES
    Separator,  \* the package variable Separator
    fsKind,     \* the registry fs: "std" (STDFlagSet), "pflag" (PFlagSet) or
                \* "none" (a FlagSet that is neither)
    v,          \* what is passed to Bind as v, one of Targets
    root,       \* the struct type v points to
    opts,       \* the bind the options build: Prefix, NoAutoFlatten
    obj,        \* the struct v points to: path -> value
    flags,      \* the registry: flag name -> flag
    stack,      \* the activations of bind.bind, innermost last
    status,     \* "idle", "running", "done" (Bind returned), "panic",
                \* "overflow" (the runtime's fatal stack overflow)
    result,     \* the error Bind returned
    calls,      \* the number of Bind calls so far
    obj0,       \* obj when the current Bind call began
    flags0,     \* flags when the current Bind call began
    prev,       \* the registry and result of the Bind call that ended before
                \* the registry was replaced by a new one, whether that call
                \* began on an empty registry, and the struct it began on
    inputs,     \* the calls of FromCamelCase and newFlagTag that a caller
                \* makes on their own, in order
    outputs     \* what the calls made so far have returned

vars == <<Separator, fsKind, v, root, opts, obj, flags, stack, status,
          result, calls, obj0, flags0, prev, inputs, outputs>>

\* the number of Bind calls in a run
MaxCalls == 2

\* the number of activations of bind.bind the goroutine's stack has room
\* for; one more and the runtime ends the program with "fatal error: stack
\* overflow"
MaxDepth == 5

\* the separators the caller may have assigned to Separator: the default and
\* one that is not among those appendSeparator looks for
Separators == {<<"-">>, <<"/">>}

\* the prefixes given with the Prefix option: none, one that ends in a
\* separator as the option's comment asks, and one that does not
PrefixOpts == {<<>>, <<"h","t","t","p","-">>, <<"a","p","p">>}

\* f.name of the registry: flag.NewFlagSet("", ...) in the tests
FlagSetName == <<>>

\* a flag in the registry: the path of the variable its Value points to, the
\* kind of that Value, DefValue, Usage and, in pflag, Shorthand and Hidden
Flag(ptr, kind, defValue, usage, shorthand) ==
    [ptr |-> ptr, kind |-> kind, DefValue |-> defValue, Usage |-> usage,
     Shorthand |-> shorthand, Hidden |-> FALSE]

\* what the registry shows of each flag: its current value and its settings
View(fl, o) ==
    [n \in DOMAIN fl |->
        [Value |-> o[fl[n].ptr], DefValue |-> fl[n].DefValue,
         Usage |-> fl[n].Usage, Shorthand |-> fl[n].Shorthand,
         Hidden |-> fl[n].Hidden]]

NoPrev == [set |-> FALSE, view |-> <<>>, result |-> Nil, fresh |-> FALSE,
           obj0 |-> <<>>]

Init ==
    /\ Separator \in Separators
    /\ fsKind \in {"std", "pflag", "none"}
    /\ v \in Targets
    /\ root \in Roots
    /\ v \notin {"struct", "nilbinder"} => root = "Empty"
    /\ v = "nilbinder" => root \in BinderTypes
    /\ opts \in [Prefix : PrefixOpts, NoAutoFlatten : BOOLEAN]
    /\ obj \in (IF v = "struct" THEN Presets(root, 1, MaxPreset) ELSE {<<>>})
    /\ flags = <<>>
    /\ stack = <<>>
    /\ status = "idle"
    /\ result = Nil
    /\ calls = 0
    /\ obj0 = obj
    /\ flags0 = <<>>
    /\ prev = NoPrev
    /\ inputs = <<>>
    /\ outputs = <<>>

----------------------------------------------------------------------------
(* bind.bind, one loop iteration at a time                                 *)

\* the innermost activation and the field its loop is at
top == stack[Len(stack)]

AtField == status = "running" /\ top.i <= NumField(top.T)

field == Fields(top.T)[top.i]

\* structField.Name == "_"
isMetadata(f) == f.Name = <<"_">>

\* structField.PkgPath == "": the field's name is exported
isExported(f) == IsUpper(f.Name[1])

\* tag.Persistent, tag.Local and tag.Flags, which bind.IsIgnored reads, are
\* set by a tag parser that is not among the sources; Bind passes no
\* CobraFilter, and under it every tag counts as selected
tagFlags(tag) == TRUE

\* bind.IsIgnored with the empty CobraFilter of Bind
IsIgnored(tag) == IF tag.IsIgnored THEN TRUE ELSE ~tagFlags(tag)

\* the name derived only for a tag without an explicit name
autoNameOnlyUntagged(tag, f, usePFlag, sep) ==
    IF ~tag.HasExplicitName
    THEN [tag EXCEPT !.Name = FromCamelCase(f.Name, sep)]
    ELSE tag

\* "Auto populate name if it has no explicit name, or only has a short name."
autoName(tag, f, usePFlag, sep) ==
    IF ~tag.HasExplicitName \/ (usePFlag /\ tag.Name = tag.ShortName)
    THEN [tag EXCEPT !.Name = FromCamelCase(f.Name, sep)]
    ELSE tag

RECURSIVE loadExtendedUsageLoop(_, _, _)
\* the for loop of loadExtendedUsage, i being the field it looks at
loadExtendedUsageLoop(i, T, tag) ==
    IF i > NumField(T) THEN [i |-> i - 1, tag |-> tag]
    ELSE LET usageT == Fields(T)[i] IN
         IF usageT.Name # <<"_">> \/ ~usageT.hasUse THEN [i |-> i - 1, tag |-> tag]
         ELSE loadExtendedUsageLoop(i + 1, T,
                  [tag EXCEPT !.Usage = (IF @ # <<>> THEN @ \o <<" ">> ELSE @)
                                        \o usageT.Use])

\* loadExtendedUsage that returns the index it was given
loadExtendedUsageNoAdvance(i, T, tag) ==
    [i |-> i, tag |-> loadExtendedUsageLoop(i + 1, T, tag).tag]

\* loadExtendedUsage: the index of the last field consumed and the tag
loadExtendedUsage(i, T, tag) == loadExtendedUsageLoop(i + 1, T, tag)

\* appendSeparator
appendSeparator(prefix, sep) ==
    IF prefix = <<>> THEN prefix
    ELSE IF \E s \in {<<"-">>, <<".">>, <<"_">>} : HasSuffix(prefix, s) THEN prefix
    ELSE prefix \o sep

\* the prefix grown whenever the field is not embedded, flatten or not
childPrefixNoFlatten(b, f, tag, sep) ==
    appendSeparator(
        IF b.NoAutoFlatten \/ ~f.Anonymous \/ tag.HasExplicitName
        THEN b.Prefix \o tag.Name
        ELSE b.Prefix,
        sep)

\* the prefix bind passes down into the struct field f
childPrefix(b, f, tag, sep) ==
    appendSeparator(
        IF ~tag.Flatten
           /\ (b.NoAutoFlatten \/ ~f.Anonymous \/ tag.HasExplicitName)
        THEN b.Prefix \o tag.Name
        ELSE b.Prefix,
        sep)

\* no field is taken for a Binder
isBinderNever(f) == FALSE

\* _, isBinder := fieldI.(Binder)
isBinder(f) == f.Kind = "struct" /\ f.Elem \in BinderTypes

\* isBinder || (!noDive && isStruct)
dives(f) == isBinder(f) \/ f.Kind = "struct"

\* the tag of field i of T as the loop has it after loadExtendedUsage, and
\* the index the loop is at then
loadTag(T, i, usePFlag, sep) ==
    loadExtendedUsage(i, T, autoName(newFlagTag(Fields(T)[i].Tag),
                                     Fields(T)[i], usePFlag, sep))

\* loadTag of every field, computed once
TagTable ==
    [sep \in Separators |-> [usePFlag \in BOOLEAN |-> [T \in TypeNames |->
        [i \in 1..NumField(T) |-> loadTag(T, i, usePFlag, sep)]]]]

tagAt(T, i, usePFlag, sep) == TagTable[sep][usePFlag][T][i]

\* newFlagTag of every field's tag, computed once
ParsedTable ==
    [T \in TypeNames |-> [i \in 1..NumField(T) |-> newFlagTag(Fields(T)[i].Tag)]]

\* tag := newFlagTag(tagStr), for the field the loop is at
parsedTag == ParsedTable[top.T][top.i]

\* a new activation of bind on the struct of type T at path
Frame(T, path, b, fieldName) ==
    [T |-> T, path |-> path, i |-> 1, Prefix |-> b.Prefix,
     NoAutoFlatten |-> b.NoAutoFlatten, defaults |-> <<>>,
     field |-> fieldName]

RECURSIVE ReturnTo(_, _)
\* the innermost activation of stk returns err: its caller wraps an error
\* and returns it in turn, or goes on with its next field
ReturnTo(stk, err) ==
    LET rest == SubSeq(stk, 1, Len(stk) - 1) IN
    IF rest = <<>> THEN [stack |-> <<>>, status |-> "done", result |-> err]
    ELSE IF err = Nil THEN [stack |-> rest, status |-> "running", result |-> Nil]
    ELSE ReturnTo(rest, newErrorNestedStruct(stk[Len(stk)].field, err))

Return(err) ==
    LET r == ReturnTo(stack, err) IN
    /\ stack' = r.stack
    /\ status' = r.status
    /\ result' = r.result

\* the loop goes on after field j
Continue(j) ==
    /\ stack' = [stack EXCEPT ![Len(stack)].i = j + 1]
    /\ UNCHANGED <<status, result>>

Frozen ==
    UNCHANGED <<Separator, fsKind, v, root, opts, calls, obj0, flags0, prev,
                inputs, outputs>>

\* the panic message of the registry for a name defined twice; pflag leaves
\* a leading space when the FlagSet has no name
redefined(kind, name) ==
    IF kind = "pflag" \/ FlagSetName # <<>>
    THEN FlagSetName \o <<" ","f","l","a","g"," ","r","e","d","e","f","i","n","e","d",":"," ">> \o name
    ELSE <<"f","l","a","g"," ","r","e","d","e","f","i","n","e","d",":"," ">> \o name

\* pflag's panic message for a shorthand that the flag used already has
shorthandRedefined(short, used) ==
    <<"u","n","a","b","l","e"," ","t","o"," ","r","e","d","e","f","i","n","e"," ","'">> \o short \o <<"'"," ","s","h","o","r","t","h","a","n","d"," ","i","n"," ">> \o <<"\"">>
        \o FlagSetName \o <<"\"">> \o <<" ","f","l","a","g","s","e","t",":"," ","i","t","'","s"," ","a","l","r","e","a","d","y"," ","u","s","e","d"," ","f","o","r"," ">>
        \o <<"\"">> \o used \o <<"\"">> \o <<" ","f","l","a","g">>

\* the deferred function without its strings.TrimSpace
recoveredUntrimmed(r) == Errorf(r)

\* the deferred function of bind: the error it makes of a recovered panic
recovered(r) == Errorf(TrimSpace(r))

\* the type switches with a case for float32 in bindSTDFlag as well
supportedFloat32(kind, k) == k \in {"bool", "int", "string", "value", "float32"}

\* the kinds bindSTDFlag, bindPFlag have a case for
supported(kind, k) ==
    IF kind = "std" THEN k \in {"bool", "int", "string", "value"}
    ELSE k \in {"bool", "int", "string", "value", "float32"}

\* a registry that records the usage with the default appended, as pflag
\* prints it, when the value is not zero
defineUsageWithDefault(kind, fl, name, short, usage, p, k, val) ==
    IF name \in DOMAIN fl
    THEN [panic |-> redefined(kind, name), flags |-> fl]
    ELSE LET f     == Flag(p, k, String(val),
                           IF IsZero(val) THEN usage
                           ELSE usage \o <<" ","(","d","e","f","a","u","l","t"," ">> \o String(val) \o <<")">>,
                           IF kind = "pflag" THEN short ELSE <<>>)
             added == (name :> f) @@ fl
         IN  IF kind = "pflag" /\ short # <<>>
                /\ \E n \in DOMAIN fl : fl[n].Shorthand = short
             THEN [panic |-> shorthandRedefined(short,
                               CHOOSE n \in DOMAIN fl : fl[n].Shorthand = short),
                   flags |-> added]
             ELSE [panic |-> <<>>, flags |-> added]

\* fs.Var, fs.BoolVar, ... of the registry: the flag is added with the
\* String() of its value as DefValue, unless the registry panics; pflag adds
\* the flag before it finds its shorthand taken
define(kind, fl, name, short, usage, p, k, val) ==
    IF name \in DOMAIN fl
    THEN [panic |-> redefined(kind, name), flags |-> fl]
    ELSE LET f     == Flag(p, k, String(val), usage,
                           IF kind = "pflag" THEN short ELSE <<>>)
             added == (name :> f) @@ fl
         IN  IF kind = "pflag" /\ short # <<>>
                /\ \E n \in DOMAIN fl : fl[n].Shorthand = short
             THEN [panic |-> shorthandRedefined(short,
                               CHOOSE n \in DOMAIN fl : fl[n].Shorthand = short),
                   flags |-> added]
             ELSE [panic |-> <<>>, flags |-> added]

\* bindSTDFlag: the settings applied once the flag is defined
bindSTDFlag(fl, tag) ==
    IF tag.HideDefault THEN [fl EXCEPT ![tag.Name].DefValue = <<>>] ELSE fl

\* bindPFlag: the settings applied once the flag is defined
bindPFlag(fl, tag) ==
    IF ~(tag.HideDefault \/ tag.Hidden) THEN fl
    ELSE [fl EXCEPT ![tag.Name].DefValue = IF tag.HideDefault THEN <<>> ELSE @,
                    ![tag.Name].Hidden = tag.Hidden]

\* bindField: err, a recovered panic, newFlag and the registry it leaves
bindField(kind, fl, tag, p, k, val) ==
    IF kind = "none"
    THEN [err |-> ErrorInvalidFlagSet, panic |-> <<>>, newFlag |-> FALSE,
          flags |-> fl]
    ELSE IF ~supported(kind, k)
    THEN [err |-> Nil, panic |-> <<>>, newFlag |-> FALSE, flags |-> fl]
    ELSE LET d == define(kind, fl, tag.Name, tag.ShortName, tag.Usage, p, k, val)
         IN  IF d.panic # <<>>
             THEN [err |-> Nil, panic |-> d.panic, newFlag |-> FALSE,
                   flags |-> d.flags]
             ELSE [err |-> Nil, panic |-> <<>>, newFlag |-> TRUE,
                   flags |-> IF kind = "std" THEN bindSTDFlag(d.flags, tag)
                             ELSE bindPFlag(d.flags, tag)]

\* an override that can hide a flag but not show it again
overrideHidesOnly(kind, fl, o, tag) ==
    LET f   == fl[tag.Name]
        set == ValueSet(f.kind, tag.DefValue)
        f1  == IF tag.DefValue # <<>> THEN [f EXCEPT !.DefValue = tag.DefValue]
               ELSE f
        f2  == IF tag.Usage # <<>> THEN [f1 EXCEPT !.Usage = tag.Usage] ELSE f1
        f3  == IF tag.HideDefault THEN [f2 EXCEPT !.DefValue = <<>>] ELSE f2
        f4  == IF kind = "pflag" /\ tag.Hidden THEN [f3 EXCEPT !.Hidden = TRUE]
               ELSE f3
    IN  [flags |-> [fl EXCEPT ![tag.Name] = f4],
         obj   |-> IF tag.DefValue # <<>> /\ Stores(f.kind, tag.DefValue)
                   THEN [o EXCEPT ![f.ptr] = set.v] ELSE o]

\* an override whose rejected literal leaves every kind of value alone
overrideKeepsValue(kind, fl, o, tag) ==
    LET f   == fl[tag.Name]
        set == ValueSet(f.kind, tag.DefValue)
        f1  == IF tag.DefValue # <<>> THEN [f EXCEPT !.DefValue = tag.DefValue]
               ELSE f
        f2  == IF tag.Usage # <<>> THEN [f1 EXCEPT !.Usage = tag.Usage] ELSE f1
        f3  == IF tag.HideDefault THEN [f2 EXCEPT !.DefValue = <<>>] ELSE f2
        f4  == IF kind = "pflag" THEN [f3 EXCEPT !.Hidden = tag.Hidden] ELSE f3
    IN  [flags |-> [fl EXCEPT ![tag.Name] = f4],
         obj   |-> IF tag.DefValue # <<>> /\ set.ok
                   THEN [o EXCEPT ![f.ptr] = set.v] ELSE o]

\* overrideSTDFlag, overridePFlag on a flag that exists: the registry and the
\* struct they leave (f.Value.Set's error is dropped, what it stored stays)
override(kind, fl, o, tag) ==
    LET f   == fl[tag.Name]
        set == ValueSet(f.kind, tag.DefValue)
        f1  == IF tag.DefValue # <<>> THEN [f EXCEPT !.DefValue = tag.DefValue]
               ELSE f
        f2  == IF tag.Usage # <<>> THEN [f1 EXCEPT !.Usage = tag.Usage] ELSE f1
        f3  == IF tag.HideDefault THEN [f2 EXCEPT !.DefValue = <<>>] ELSE f2
        f4  == IF kind = "pflag" THEN [f3 EXCEPT !.Hidden = tag.Hidden] ELSE f3
    IN  [flags |-> [fl EXCEPT ![tag.Name] = f4],
         obj   |-> IF tag.DefValue # <<>> /\ Stores(f.kind, tag.DefValue)
                   THEN [o EXCEPT ![f.ptr] = set.v] ELSE o]

\* setDefaults without the default case of its type switch
setDefaultsNoDefaultCase(kind, fl, defaults) ==
    [err   |-> Nil,
     flags |-> [n \in DOMAIN fl |->
                   IF n \in DOMAIN defaults
                   THEN [fl[n] EXCEPT !.DefValue = defaults[n]]
                   ELSE fl[n]]]

\* setDefaults that visits no flag
setDefaultsNoVisit(kind, fl, defaults) ==
    [err |-> IF kind = "none" THEN ErrorInvalidFlagSet ELSE Nil, flags |-> fl]

\* setDefaults: its error and the registry it leaves
setDefaults(kind, fl, defaults) ==
    IF kind = "none" THEN [err |-> ErrorInvalidFlagSet, flags |-> fl]
    ELSE [err   |-> Nil,
          flags |-> [n \in DOMAIN fl |->
                        IF n \in DOMAIN defaults
                        THEN [fl[n] EXCEPT !.DefValue = defaults[n]]
                        ELSE fl[n]]]

\* the run-time panic of &v.custom on a nil v
nilDereference ==
    <<"r","u","n","t","i","m","e"," ","e","r","r","o","r",":"," ","i","n","v","a","l","i","d"," ","m","e","m","o","r","y"," ","a","d","d","r","e","s","s"," ","o","r"," ","n","i","l"," ","p","o","i","n","t","e","r"," ","d","e","r","e","f","e","r","e","n","c","e">>

\* ValidTestFlags.FlagBind, the Binder of the tests: fs.BoolVar(&v.custom,
\* prefix+"custom", false, "") and then Bind on the struct without its
\* method.  This is the BoolVar: the registry and the struct it leaves, or
\* the panic; on a nil receiver &v.custom panics before BoolVar is called.
FlagBind(kind, fl, o, T, path, prefix) ==
    LET c == CHOOSE k \in 1..NumField(T) : Fields(T)[k].Name = <<"c","u","s","t","o","m">>
        p == Append(path, c)
        d == define(kind, fl, prefix \o <<"c","u","s","t","o","m">>, <<>>, <<>>, p, "bool",
                    BoolV(FALSE))
    IN  IF p \notin DOMAIN o
        THEN [panic |-> nilDereference, flags |-> fl, obj |-> o]
        ELSE [panic |-> d.panic, flags |-> d.flags,
              obj |-> IF d.panic = <<>> THEN [o EXCEPT ![p] = BoolV(FALSE)]
                      ELSE o]

----------------------------------------------------------------------------
(* Actions                                                                 *)

\* the checks without "We can only inspect structs."
invalidTypeNoStructCheck(t) ==
    CASE t \in {"struct", "intptr"} -> Nil
      [] t = "nilptr"               -> ErrorInvalidType(TRUE)
      [] OTHER                      -> ErrorInvalidType(FALSE)

\* "Ensure we have a non-nil pointer." and "We can only inspect structs.":
\* the error bind returns for the target t, nil for a pointer to a struct
invalidType(t) ==
    CASE t = "struct" -> Nil
      [] t = "nilptr" -> ErrorInvalidType(TRUE)
      [] OTHER        -> ErrorInvalidType(FALSE)

\* bind begins on the struct v points to
Begin ==
    /\ stack' = <<Frame(root, <<>>, opts, <<>>)>>
    /\ status' = "running"
    /\ result' = Nil

\* "Hand control over to the Binder implementation.": FlagBind has run with
\* outcome fb; nothing recovers its panic
Handed(fb) ==
    /\ flags' = fb.flags
    /\ obj' = fb.obj
    /\ IF fb.panic # <<>>
       THEN status' = "panic" /\ UNCHANGED <<stack, result>>
       ELSE Begin

\* Bind(fs, v, opts...): newBind(opts...).bind(fs, v) up to the loop
Bind ==
    /\ status \in {"idle", "done"}
    /\ calls < MaxCalls
    /\ calls' = calls + 1
    /\ obj0' = obj
    /\ flags0' = flags
    /\ UNCHANGED <<Separator, fsKind, v, root, opts, prev, inputs, outputs>>
    /\ IF v \in {"struct", "nilbinder"} /\ root \in BinderTypes
       THEN Handed(FlagBind(fsKind, flags, obj, root, <<>>, opts.Prefix))
       ELSE IF invalidType(v) # Nil
       THEN /\ result' = invalidType(v)
            /\ status' = "done"
            /\ UNCHANGED <<obj, flags, stack>>
       ELSE Begin /\ UNCHANGED <<obj, flags>>

\* "Ignore unexported, non-metadata fields." and ignored fields
SkipField ==
    /\ AtField
    /\ \/ ~isExported(field) /\ ~isMetadata(field)
       \/ IsIgnored(parsedTag)
    /\ Continue(top.i)
    /\ UNCHANGED <<obj, flags>>
    /\ Frozen

\* overrideFlag that passes over a flag that does not exist
OverriddenIfDefined(tag, j) ==
    IF fsKind = "none"
    THEN Return(ErrorInvalidFlagSet) /\ UNCHANGED <<obj, flags>>
    ELSE IF tag.Name \notin DOMAIN flags
    THEN Continue(j) /\ UNCHANGED <<obj, flags>>
    ELSE /\ flags' = override(fsKind, flags, obj, tag).flags
         /\ obj' = override(fsKind, flags, obj, tag).obj
         /\ Continue(j)

\* overrideFlag for the metadata tag, and the loop goes on after field j
Overridden(tag, j) ==
    IF fsKind = "none"
    THEN Return(ErrorInvalidFlagSet) /\ UNCHANGED <<obj, flags>>
    ELSE IF tag.Name \notin DOMAIN flags
    THEN Return(ErrorFlagOverrideUndefined(tag.Name)) /\ UNCHANGED <<obj, flags>>
    ELSE /\ flags' = override(fsKind, flags, obj, tag).flags
         /\ obj' = override(fsKind, flags, obj, tag).obj
         /\ Continue(j)

\* "Update Flag with Metadata tag."
OverrideField ==
    /\ AtField
    /\ isMetadata(field)
    /\ ~IsIgnored(parsedTag)
    /\ Frozen
    /\ IF field.hasTag
       THEN Overridden(tagAt(top.T, top.i, fsKind = "pflag", Separator).tag,
                       tagAt(top.T, top.i, fsKind = "pflag", Separator).i)
       ELSE /\ Continue(tagAt(top.T, top.i, fsKind = "pflag", Separator).i)
            /\ UNCHANGED <<obj, flags>>

\* the pointer allocated only for a type that will be bound or walked
AllocateIfBound(o, f, p) ==
    IF o[p] = NilV /\ (f.Kind = "struct" \/ supported(fsKind, f.Kind))
    THEN New(f, p) @@ o ELSE o

\* "Allocate the field pointer if nil.": the struct then
Allocate(o, f, p) == IF o[p] = NilV THEN New(f, p) @@ o ELSE o

\* the bind that is called on the struct field f: "Set prefix up to this
\* point."
childBind(b, f, tag, sep) ==
    [Prefix |-> childPrefix(b, f, tag, sep), NoAutoFlatten |-> b.NoAutoFlatten]

\* b.bind(fs, fieldI) begins on the struct field f at p, and the caller's
\* loop will go on after field j
Descend(f, p, j, b) ==
    IF Len(stack) < MaxDepth
    THEN /\ stack' = Append([stack EXCEPT ![Len(stack)].i = j + 1],
                           Frame(f.Elem, p, b, f.Name))
         /\ UNCHANGED <<status, result>>
    ELSE /\ status' = "overflow"
         /\ UNCHANGED <<stack, result>>

\* the field is a struct: bind is called on it with the grown prefix
DescendField ==
    /\ AtField
    /\ isExported(field) /\ ~isMetadata(field)
    /\ ~IsIgnored(parsedTag)
    /\ dives(field) /\ ~isBinder(field)
    /\ Frozen
    /\ obj' = Allocate(obj, field, Append(top.path, top.i))
    /\ Descend(field, Append(top.path, top.i),
               tagAt(top.T, top.i, fsKind = "pflag", Separator).i,
               childBind(top, field,
                         tagAt(top.T, top.i, fsKind = "pflag", Separator).tag,
                         Separator))
    /\ UNCHANGED flags

\* binder.FlagBind(fs, b.Prefix, b.Option()) has run with outcome fb: its
\* panic ends the caller's activation, else its Bind begins
Delegated(f, p, j, b, fb) ==
    /\ flags' = fb.flags
    /\ obj' = fb.obj
    /\ IF fb.panic # <<>>
       THEN Return(recovered(fb.panic))
       ELSE Descend(f, p, j, b)

Delegate(f, p, j, b) ==
    Delegated(f, p, j, b,
              FlagBind(fsKind, flags, Allocate(obj, f, p), f.Elem, p, b.Prefix))

\* the field implements Binder: bind hands over to its FlagBind
BinderField ==
    /\ AtField
    /\ isExported(field) /\ ~isMetadata(field)
    /\ ~IsIgnored(parsedTag)
    /\ isBinder(field)
    /\ Frozen
    /\ Delegate(field, Append(top.path, top.i),
                tagAt(top.T, top.i, fsKind = "pflag", Separator).i,
                childBind(top, field,
                          tagAt(top.T, top.i, fsKind = "pflag", Separator).tag,
                          Separator))

\* the tag default set whether or not the field value was zero
SetDefaultAlways(f, p, j, tag, o, set) ==
    IF tag.DefValue = <<>>
    THEN Continue(j) /\ obj' = o
    ELSE IF ~set.ok
    THEN /\ Return(ErrorDefaultValue(f.Name, tag.DefValue,
                                     SetError(tag.Name, tag.DefValue)))
         /\ obj' = o
    ELSE /\ obj' = [o EXCEPT ![p] = set.v]
         /\ stack' = [stack EXCEPT
                        ![Len(stack)].i = j + 1,
                        ![Len(stack)].defaults = (tag.Name :> tag.DefValue) @@ @]
         /\ UNCHANGED <<status, result>>

\* "If field value was zero, then set the tag default, if specified.": o is
\* the struct, its field at p not nil, and set is what the flag's Value makes
\* of the tag default
SetDefault(f, p, j, tag, o, set) ==
    IF ~(IsZero(o[p]) /\ tag.DefValue # <<>>)
    THEN Continue(j) /\ obj' = o
    ELSE IF ~set.ok
    THEN /\ Return(ErrorDefaultValue(f.Name, tag.DefValue,
                                     SetError(tag.Name, tag.DefValue)))
         /\ obj' = o
    ELSE /\ obj' = [o EXCEPT ![p] = set.v]
         /\ stack' = [stack EXCEPT
                        ![Len(stack)].i = j + 1,
                        ![Len(stack)].defaults = (tag.Name :> tag.DefValue) @@ @]
         /\ UNCHANGED <<status, result>>

\* a bind that takes its flags back when bindField fails
BoundRollsBack(f, p, j, tag, o, bf) ==
    /\ flags' = IF bf.err # Nil \/ bf.panic # <<>> THEN flags0 ELSE bf.flags
    /\ IF bf.err # Nil
       THEN Return(bf.err) /\ obj' = o
       ELSE IF bf.panic # <<>>
       THEN Return(recovered(bf.panic)) /\ obj' = o
       ELSE IF ~bf.newFlag
       THEN Continue(j) /\ obj' = o
       ELSE SetDefault(f, p, j, tag, o, ValueSet(f.Kind, tag.DefValue))

\* bindField has returned bf for the field f at p of the struct o
Bound(f, p, j, tag, o, bf) ==
    /\ flags' = bf.flags
    /\ IF bf.err # Nil
       THEN Return(bf.err) /\ obj' = o
       ELSE IF bf.panic # <<>>
       THEN Return(recovered(bf.panic)) /\ obj' = o
       ELSE IF ~bf.newFlag
       THEN Continue(j) /\ obj' = o
       ELSE SetDefault(f, p, j, tag, o, ValueSet(f.Kind, tag.DefValue))

\* the leaf field f at p of the struct o, with its prefixed tag
BindLeaf(f, p, j, tag, o) ==
    Bound(f, p, j, tag, o, bindField(fsKind, flags, tag, p, f.Kind, o[p]))

\* tag.Name = fmt.Sprintf("%v%v", b.Prefix, tag.Name)
prefixed(prefix, tag) == [tag EXCEPT !.Name = prefix \o @]

\* the field is bound to a flag of its own
LeafField ==
    /\ AtField
    /\ isExported(field) /\ ~isMetadata(field)
    /\ ~IsIgnored(parsedTag)
    /\ ~dives(field)
    /\ Frozen
    /\ BindLeaf(field, Append(top.path, top.i),
                tagAt(top.T, top.i, fsKind = "pflag", Separator).i,
                prefixed(top.Prefix,
                         tagAt(top.T, top.i, fsKind = "pflag", Separator).tag),
                Allocate(obj, field, Append(top.path, top.i)))

\* the loop is over: return setDefaults(fs, defaults)
LevelDone ==
    /\ status = "running"
    /\ top.i > NumField(top.T)
    /\ Frozen
    /\ UNCHANGED obj
    /\ Return(setDefaults(fsKind, flags, top.defaults).err)
    /\ flags' = setDefaults(fsKind, flags, top.defaults).flags

\* the caller goes on with a new, empty registry of the same kind
NewFlagSet ==
    /\ status = "done"
    /\ calls < MaxCalls
    /\ flags # <<>>
    /\ prev' = [set |-> TRUE, view |-> View(flags, obj), result |-> result,
                fresh |-> flags0 = <<>>, obj0 |-> obj0]
    /\ flags' = <<>>
    /\ status' = "idle"
    /\ UNCHANGED <<Separator, fsKind, v, root, opts, obj, stack, result,
                   calls, obj0, flags0, inputs, outputs>>

Next ==
    \/ Bind
    \/ SkipField
    \/ OverrideField
    \/ DescendField
    \/ BinderField
    \/ LeafField
    \/ LevelDone
    \/ NewFlagSet

Spec == Init /\ [][Next]_vars


----------------------------------------------------------------------------
(* FromCamelCase and newFlagTag called on their own                        *)

\* the call FromCamelCase(name, sep)
CamelCall(name, sep) == [fn |-> "FromCamelCase", text |-> name, sep |-> sep]

\* the call newFlagTag(tag)
TagCall(tag) == [fn |-> "newFlagTag", text |-> tag, sep |-> <<>>]

\* the names of fromCamelCaseTests and of the doc comment of FromCamelCase
CamelNames ==
    {<<"I","D">>, <<"N","e","w","I","D">>, <<"F","A","A","d","d","r","e","s","s">>, <<"U","R","L">>, <<"S","e","r","v","e","r","U","R","L">>, <<"A","P","I","S","e","r","v","e","r","U","R","L">>,
     <<"A","P","I","U","r","l","I","D">>, <<"A","u","t","o","K","e","b","a","b">>, <<"S","t","r","u","c","t","A","B","o","o","l">>, <<"I","D","C","a","m","e","l">>, <<"A","P","I","C","a","m","e","l">>,
     <<"A","P","I","U","R","L">>, <<"A","p","i","U","r","l">>}

\* the separators TestFromCamelCase runs with
CamelSeps == {<<"-">>, <<".">>, <<"_">>, <<>>}

\* name candidates of a tag's first segment: none, one letter, longer, and
\* with leading dashes
NameCandidates ==
    {<<>>, <<"s">>, <<"l">>, <<"r">>, <<"-","r">>, <<"a","b">>, <<"c","d">>, <<"l","o","n","g">>, <<"-","-","l","o","n","g">>,
     <<"r","l","o","n","g">>, <<"-","r","l","o","n","g">>}

\* tokens of a tag's options segment: the three options, in other case,
\* inside a longer word, after a blank, an unknown word, and nothing
OptionTokens ==
    {<<"h","i","d","d","e","n">>, <<"h","i","d","e","-","d","e","f","a","u","l","t">>, <<"f","l","a","t","t","e","n">>, <<"H","i","d","d","e","n">>, <<"F","L","A","T","T","E","N">>,
     <<"H","i","d","e","-","D","e","f","a","u","l","t">>, <<"u","n","h","i","d","d","e","n">>, <<"f","l","a","t","t","e","n","e","d">>, <<" ","h","i","d","d","e","n">>, <<"v","e","r","b","o","s","e">>, <<>>}

\* options segments of one or two tokens
OptionSegments ==
    OptionTokens \cup {a \o <<",">> \o b : a \in OptionTokens, b \in OptionTokens}

\* the length of the identifiers made of letters
MaxNameLen == 4

\* small and capital letters
Letters == {"a", "b", "C", "D"}

\* the identifiers of up to MaxNameLen letters
LetterNames ==
    UNION {[1..n -> Letters] : n \in 1..MaxNameLen}

\* separators without a letter: those of the tests and one of two characters
LetterSeps == CamelSeps \cup {<<":",":">>}

\* what a caller does: one call of FromCamelCase, the two calls of
\* newFlagTag on a pair of name candidates in either order, or one call of
\* newFlagTag on a tag with an options segment
Scripts ==
    {<<CamelCall(n, s)>> : n \in CamelNames, s \in CamelSeps}
    \cup {<<CamelCall(n, s)>> : n \in LetterNames, s \in LetterSeps}
    \cup {<<TagCall(a \o <<",">> \o b), TagCall(b \o <<",">> \o a)>> :
             a \in NameCandidates, b \in NameCandidates}
    \cup {<<TagCall(<<";",";",";">> \o o)>> : o \in OptionSegments}

PureInit ==
    /\ Separator = <<"-">>
    /\ fsKind = "std"
    /\ v = "struct"
    /\ root = "Empty"
    /\ opts = [Prefix |-> <<>>, NoAutoFlatten |-> FALSE]
    /\ obj = <<>>
    /\ flags = <<>>
    /\ stack = <<>>
    /\ status = "idle"
    /\ result = Nil
    /\ calls = 0
    /\ obj0 = <<>>
    /\ flags0 = <<>>
    /\ prev = NoPrev
    /\ inputs \in Scripts
    /\ outputs = <<>>

\* the call that comes next
nextCall == inputs[Len(outputs) + 1]

CallFromCamelCase ==
    /\ Len(outputs) < Len(inputs)
    /\ nextCall.fn = "FromCamelCase"
    /\ outputs' = Append(outputs, FromCamelCase(nextCall.text, nextCall.sep))
    /\ UNCHANGED <<Separator, fsKind, v, root, opts, obj, flags, stack,
                   status, result, calls, obj0, flags0, prev, inputs>>

CallNewFlagTag ==
    /\ Len(outputs) < Len(inputs)
    /\ nextCall.fn = "newFlagTag"
    /\ outputs' = Append(outputs, newFlagTag(nextCall.text))
    /\ UNCHANGED <<Separator, fsKind, v, root, opts, obj, flags, stack,
                   status, result, calls, obj0, flags0, prev, inputs>>

PureNext ==
    \/ CallFromCamelCase
    \/ CallNewFlagTag

Pure == PureInit /\ [][PureNext]_vars

----------------------------------------------------------------------------
(* Properties                                                              *)

\* the loop is at a field that bind hands to bindField
AtLeaf ==
    /\ AtField
    /\ isExported(field) /\ ~isMetadata(field)
    /\ ~IsIgnored(parsedTag)
    /\ ~dives(field)

\* where the field the loop is at lives, the tag the loop has for it once
\* its usage is loaded, and the name its flag is registered under
here == Append(top.path, top.i)

loaded == tagAt(top.T, top.i, fsKind = "pflag", Separator)

fullName == top.Prefix \o loaded.tag.Name

\* the registry is one of the two kinds Bind knows
knownFlagSet == fsKind \in {"std", "pflag"}

\* bindField would define a new flag for the field the loop is at
Registers ==
    /\ AtLeaf
    /\ knownFlagSet
    /\ supported(fsKind, field.Kind)
    /\ fullName \notin DOMAIN flags
    /\ ~(/\ fsKind = "pflag"
         /\ loaded.tag.ShortName # <<>>
         /\ \E n \in DOMAIN flags : flags[n].Shorthand = loaded.tag.ShortName)

\* the error at the end of the chain
innermost(err) == <<err[Len(err)]>>

\* C1: when bind reaches a leaf field of a type the registry (flag or pflag)
\* has a primitive for, and the name the field resolves to is already that
\* of a flag in the registry, Bind does not panic: the step ends the call
\* with a non-nil error whose message carries "flag redefined: <name>",
\* which is the whole message of the innermost error.
C1_DuplicateNameIsReturned ==
    [][(/\ AtLeaf
        /\ knownFlagSet
        /\ supported(fsKind, field.Kind)
        /\ fullName \in DOMAIN flags)
       => /\ status' = "done"
          /\ result' # Nil
          /\ Contains(Error(result'), <<"f","l","a","g"," ","r","e","d","e","f","i","n","e","d",":"," ">> \o fullName)
          /\ Error(innermost(result')) = <<"f","l","a","g"," ","r","e","d","e","f","i","n","e","d",":"," ">> \o fullName]_vars

\* Bind on struct { Duplicate bool; Duplicate_ bool `flag:"duplicate"` } and
\* a pflag registry has returned "flag redefined: duplicate"
C1_Witness ==
    /\ status = "done"
    /\ root = "Dup"
    /\ fsKind = "pflag"
    /\ calls = 1
    /\ result # Nil
    /\ Error(result) = <<"f","l","a","g"," ","r","e","d","e","f","i","n","e","d",":"," ","d","u","p","l","i","c","a","t","e">>
    /\ DOMAIN flags = {<<"d","u","p","l","i","c","a","t","e">>}

\* the tag of field k of the root struct and the name of its flag
rootTag(k) == tagAt(root, k, fsKind = "pflag", Separator).tag

rootName(k) == opts.Prefix \o rootTag(k).Name

\* some blank-identifier field carries a flag tag that names the flag n
overridden(n) ==
    \E T \in TypeNames : \E j \in 1..NumField(T) :
        /\ isMetadata(Fields(T)[j])
        /\ Fields(T)[j].hasTag
        /\ tagAt(T, j, fsKind = "pflag", Separator).tag.Name = n

RECURSIVE typeAt(_, _)
\* the struct type that declares the field at path p below a struct of type T
typeAt(T, p) ==
    IF Len(p) = 1 THEN T ELSE typeAt(Fields(T)[p[1]].Elem, Tail(p))

\* the field at path p of the root struct, and the tag the loop has for it
fieldAt(p) == Fields(typeAt(root, p))[p[Len(p)]]

tagOf(p) == tagAt(typeAt(root, p), p[Len(p)], fsKind = "pflag", Separator).tag

\* the field at p was zero when Bind was called: a zero value, a nil pointer,
\* or a field of a struct that a nil pointer had yet to be allocated for
wasZero(p) == p \notin DOMAIN obj0 \/ obj0[p] = NilV \/ IsZero(obj0[p])

\* every flag of a field that was zero when Bind was called, and whose tag
\* supplies a default literal its Value accepts, shows the literal as its
\* display default, and the field holds the parsed literal
DefaultsApplied ==
    \A n \in DOMAIN flags :
        (/\ wasZero(flags[n].ptr)
         /\ tagOf(flags[n].ptr).DefValue # <<>>
         /\ ValueSet(fieldAt(flags[n].ptr).Kind,
                     tagOf(flags[n].ptr).DefValue).ok
         /\ ~overridden(n))
        => /\ obj[flags[n].ptr] =
                ValueSet(fieldAt(flags[n].ptr).Kind,
                         tagOf(flags[n].ptr).DefValue).v
           /\ flags[n].DefValue = tagOf(flags[n].ptr).DefValue

C4_DefaultValueErrorIsReturned ==
    [][(/\ Registers
        /\ (obj[here] = NilV \/ IsZero(obj[here]))
        /\ loaded.tag.DefValue # <<>>
        /\ ~ValueSet(field.Kind, loaded.tag.DefValue).ok)
       => /\ status' = "done"
          /\ Len(result') >= 2
          /\ result'[Len(result') - 1] =
                Layer("ErrorDefaultValue", field.Name, loaded.tag.DefValue)
          /\ field.Name # fullName
          /\ Unwrap(SubSeq(result', Len(result') - 1, Len(result'))) =
                SetError(fullName, loaded.tag.DefValue)
          /\ Is(result', SetError(fullName, loaded.tag.DefValue))
          /\ \A k \in 1..(Len(result') - 2) :
                result'[k].kind = "ErrorNestedStruct"
          /\ DOMAIN flags' = DOMAIN flags \cup {fullName}]_vars

\* Bind on struct { Int int `flag:";5"`; Number int `flag:"num;five"`; Last
\* bool } has returned the ErrorDefaultValue of field Number, flag num
C4_Witness ==
    /\ status = "done"
    /\ root = "BadSecond"
    /\ fsKind = "std"
    /\ opts.Prefix = <<>>
    /\ calls = 1
    /\ result = ErrorDefaultValue(<<"N","u","m","b","e","r">>, <<"f","i","v","e">>, SetError(<<"n","u","m">>, <<"f","i","v","e">>))
    /\ DOMAIN flags = {<<"i","n","t">>, <<"n","u","m">>}

\* C5 (as stated): Bind called with a value that is not a pointer (true,
\* nil), is a nil pointer, or points to a non-struct (new(int)) returns
\* ErrorInvalidType at once: no field is ever walked, and the registry and
\* the value are as they were.
C5_AsStated ==
    v # "struct" =>
        /\ status \in {"idle", "done"}
        /\ stack = <<>>
        /\ flags = flags0
        /\ obj = obj0
        /\ status = "done" => result = ErrorInvalidType(v = "nilptr")

\* C5: Bind called with a value that does not implement Binder and is not a
\* pointer (true, nil), is a nil pointer, or points to a non-struct
\* (new(int)) returns ErrorInvalidType at once: no field is ever walked, and
\* the registry and the value are as they were.
C5_InvalidTypeIsReturned ==
    v \notin {"struct", "nilbinder"} =>
        /\ status \in {"idle", "done"}
        /\ stack = <<>>
        /\ flags = flags0
        /\ obj = obj0
        /\ status = "done" => result = ErrorInvalidType(v = "nilptr")

\* Bind((*struct{})(nil)) has returned ErrorInvalidType{v, true}
C5_Witness ==
    /\ status = "done"
    /\ v = "nilptr"
    /\ calls = 1
    /\ result = ErrorInvalidType(TRUE)
    /\ flags = <<>>

\* C6: on a registry that is neither an STDFlagSet nor a PFlagSet, Bind on
\* any pointer to a struct returns an error that is ErrorInvalidFlagSet
\* (errors.Is: it is wrapped with the field path when a nested struct's bind
\* raised it), also for a struct with no leaf field and for one whose only
\* fields are nested structs; Bind itself defines no flag.
C6_InvalidFlagSetIsReturned ==
    (fsKind = "none" /\ v = "struct" /\ status = "done") =>
        /\ result # Nil
        /\ Is(result, ErrorInvalidFlagSet)
        /\ root \notin BinderTypes => flags = <<>>

\* Bind on struct { First struct{}; Second *StructB } and a registry of
\* neither kind has returned ErrorInvalidFlagSet from the bind of First
C6_Witness ==
    /\ status = "done"
    /\ fsKind = "none"
    /\ root = "OnlyNested"
    /\ calls = 1
    /\ result = newErrorNestedStruct(<<"F","i","r","s","t">>, ErrorInvalidFlagSet)
    /\ flags = <<>>

\* the loop is at a blank-identifier field that carries a flag tag
AtOverride ==
    /\ AtField
    /\ isMetadata(field)
    /\ ~IsIgnored(parsedTag)
    /\ field.hasTag

\* C7: when bind, on a flag or pflag registry, reaches a blank-identifier
\* field with a flag tag that names N, then exactly when the registry holds
\* no flag named N at that point (N as written in the tag, against the full
\* names of the flags) the step ends the call with
\* ErrorFlagOverrideUndefined{N}; otherwise the traversal goes on.
C7_OverrideOfUndefinedFlag ==
    [][(AtOverride /\ knownFlagSet)
       => IF loaded.tag.Name \notin DOMAIN flags
          THEN /\ status' = "done"
               /\ result' # Nil
               /\ innermost(result') =
                     ErrorFlagOverrideUndefined(loaded.tag.Name)
               /\ flags' = flags
          ELSE /\ status' = "running"
               /\ result' = Nil
               /\ DOMAIN flags' = DOMAIN flags]_vars

\* Bind on struct { _ struct{} `flag:"undefined;true"`; Undefined bool } has
\* returned ErrorFlagOverrideUndefined{"undefined"}: the field that defines
\* the flag comes after the override
C7_Witness ==
    /\ status = "done"
    /\ root = "OverrideBefore"
    /\ fsKind = "pflag"
    /\ opts.Prefix = <<>>
    /\ calls = 1
    /\ result = ErrorFlagOverrideUndefined(<<"u","n","d","e","f","i","n","e","d">>)
    /\ flags = <<>>
    /\ FromCamelCase(Fields(root)[2].Name, Separator) = <<"u","n","d","e","f","i","n","e","d">>

RECURSIVE Dotted(_, _)
\* the names of the struct fields the activations k, k+1, ... of stk were
\* entered through, joined by dots
Dotted(stk, k) ==
    IF k = Len(stk) THEN stk[k].field
    ELSE stk[k].field \o <<".">> \o Dotted(stk, k + 1)

\* C8: an error that leaves a nested bind is returned by Bind under one
\* ErrorNestedStruct whose field name is the dotted path of the enclosing
\* struct fields, outermost first, so that its message is "A.B.C: <E>"; the
\* error E it wraps holds no further ErrorNestedStruct and is reached by
\* unwrapping once.
C8_NestedErrorHasDottedPath ==
    [][(status = "running" /\ status' = "done" /\ result' # Nil
        /\ Len(stack) > 1)
       => /\ result'[1] = Layer("ErrorNestedStruct", Dotted(stack, 2), <<>>)
          /\ Unwrap(result') # Nil
          /\ \A k \in 2..Len(result') : result'[k].kind # "ErrorNestedStruct"
          /\ Error(result') =
                Dotted(stack, 2) \o <<":"," ">> \o Error(Unwrap(result'))]_vars

\* Bind on struct { A struct { B struct { C *struct { Value TestValue
\* `flag:";asdf;"` } } } } has returned the error of Value under the path
\* A.B.C
C8_Witness ==
    /\ status = "done"
    /\ root = "DeepA"
    /\ fsKind = "std"
    /\ result # Nil
    /\ Error(result) = <<"A",".","B",".","C",":"," ","V","a","l","u","e",":"," ","c","a","n","n","o","t"," ","a","s","s","i","g","n"," ","d","e","f","a","u","l","t"," ","v","a","l","u","e"," ","f","r","o","m"," ","t","a","g",":"," ">>
                       \o <<"\"">> \o <<"a","s","d","f">> \o <<"\"">>
    /\ Len(result) = 3
    /\ Unwrap(result)[1].kind = "ErrorDefaultValue"
    /\ Is(result, SetError(opts.Prefix \o <<"a","-","b","-","c","-","v","a","l","u","e">>, <<"a","s","d","f">>))

\* C9: a field whose flag tag has "-" as its whole first segment, whatever
\* follows the first semicolon, is passed over in one step: no flag is
\* defined, nothing of the struct changes (a nil pointer stays nil), and no
\* bind of a nested or embedded struct begins, so that no field below it is
\* ever walked.
C9_IgnoredFieldIsPassedOver ==
    [][(AtField /\ field.hasTag /\ Split(field.Tag, ";")[1] = <<"-">>)
       => /\ flags' = flags
          /\ obj' = obj
          /\ status' = "running"
          /\ result' = result
          /\ stack' = [stack EXCEPT ![Len(stack)].i = top.i + 1]]_vars

\* Bind has returned nil on the struct with Ignored `flag:"-"`,
\* IgnoredNested StructA `flag:"-;;;flatten"`, IgnoredPtr *StructB
\* `flag:"-;1;use"`, WithDash `flag:"-with-dash"` and Dashes `flag:"-,--"`:
\* only the last two have a flag, and IgnoredPtr is nil
C9_Witness ==
    /\ status = "done"
    /\ result = Nil
    /\ root = "Ignore"
    /\ fsKind = "std"
    /\ Separator = <<"-">>
    /\ opts.Prefix = <<>>
    /\ calls = 1
    /\ DOMAIN flags = {<<"w","i","t","h","-","d","a","s","h">>, <<"d","a","s","h","e","s">>}
    /\ obj[<<3>>] = NilV
    /\ <<2, 1>> \in DOMAIN obj /\ obj[<<2, 1>>] = BoolV(FALSE)

\* the options segment of the field's tag lists flatten
listsFlatten(f) ==
    /\ Len(Split(f.Tag, ";")) >= 4
    /\ Contains(ToLower(Split(f.Tag, ";")[4]), <<"f","l","a","t","t","e","n">>)

\* the prefix a struct field's children must get under the parent's bind b
expectedPrefix(b, T, i) ==
    appendSeparator(
        IF \/ listsFlatten(Fields(T)[i])
           \/ (/\ Fields(T)[i].Anonymous
               /\ ~newFlagTag(Fields(T)[i].Tag).HasExplicitName
               /\ ~b.NoAutoFlatten)
        THEN b.Prefix
        ELSE b.Prefix \o tagAt(T, i, fsKind = "pflag", Separator).tag.Name,
        Separator)

\* C10: the prefix of every nested activation of bind is the parent's prefix
\* extended with the field's resolved name, unless the field's tag lists
\* flatten, or the field is embedded, has no explicit tag name and
\* NoAutoFlatten is off; then it is the parent's prefix.  With Separator "-"
\* and no Prefix option: Nested StructA gives nested-struct-a-bool, flatten
\* gives struct-b-bool, an embedded StructA gives struct-a-bool, an embedded
\* StructB tagged "embedded" gives embedded-struct-b-bool, an embedded
\* http.Client gives client-timeout with NoAutoFlatten (timeout without),
\* and flatten wins over an explicit name.
C10_ChildPrefix ==
    /\ \A k \in 2..Len(stack) :
          stack[k].Prefix =
              expectedPrefix(stack[k - 1], stack[k - 1].T,
                             stack[k].path[Len(stack[k].path)])
    /\ (/\ status = "done" /\ result = Nil /\ knownFlagSet
        /\ Separator = <<"-">> /\ opts.Prefix = <<>> /\ flags0 = <<>>)
       => /\ (root = "Prefixes" /\ ~opts.NoAutoFlatten)
             => DOMAIN flags = {<<"n","e","s","t","e","d","-","s","t","r","u","c","t","-","a","-","b","o","o","l">>, <<"s","t","r","u","c","t","-","b","-","b","o","o","l">>,
                                <<"s","t","r","u","c","t","-","a","-","b","o","o","l">>, <<"e","m","b","e","d","d","e","d","-","s","t","r","u","c","t","-","b","-","b","o","o","l">>}
          /\ root = "EmbClient"
             => DOMAIN flags = IF opts.NoAutoFlatten
                               THEN {<<"c","l","i","e","n","t","-","t","i","m","e","o","u","t">>} ELSE {<<"t","i","m","e","o","u","t">>}
          /\ root = "FlattenNamed"
             => DOMAIN flags = {<<"s","t","r","u","c","t","-","b","-","b","o","o","l">>, <<"s","t","r","u","c","t","-","a","-","b","o","o","l">>}

\* Bind has returned nil on struct { Nested *StructA; NestedFlat StructB
\* `flag:";;;flatten"`; StructA; StructB `flag:"embedded"` } with the four
\* flag names of the claim
C10_Witness ==
    /\ status = "done"
    /\ result = Nil
    /\ root = "Prefixes"
    /\ fsKind = "pflag"
    /\ ~opts.NoAutoFlatten
    /\ DOMAIN flags = {<<"n","e","s","t","e","d","-","s","t","r","u","c","t","-","a","-","b","o","o","l">>, <<"s","t","r","u","c","t","-","b","-","b","o","o","l">>,
                       <<"s","t","r","u","c","t","-","a","-","b","o","o","l">>, <<"e","m","b","e","d","d","e","d","-","s","t","r","u","c","t","-","b","-","b","o","o","l">>}

----------------------------------------------------------------------------
(* Extended usage                                                          *)

\* field j of T is a blank-identifier field with a use tag
blankUse(T, j) == Fields(T)[j].Name = <<"_">> /\ Fields(T)[j].hasUse

RECURSIVE UseRun(_, _)
\* how many blank-identifier fields with use tags stand in a row from field
\* j of T on
UseRun(T, j) ==
    IF j <= NumField(T) /\ blankUse(T, j) THEN 1 + UseRun(T, j + 1) ELSE 0

\* the use texts of the fields j .. j + k - 1 of T
UseTexts(T, j, k) == [m \in 1..k |-> Fields(T)[j + m - 1].Use]

RECURSIVE DropLeadingEmpty(_)
DropLeadingEmpty(ws) ==
    IF ws # <<>> /\ Head(ws) = <<>> THEN DropLeadingEmpty(Tail(ws)) ELSE ws

RECURSIVE JoinSpace(_)
\* the texts ws with one space between each two
JoinSpace(ws) ==
    IF ws = <<>> THEN <<>>
    ELSE IF Len(ws) = 1 THEN ws[1]
    ELSE ws[1] \o <<" ">> \o JoinSpace(Tail(ws))

\* the usage of field i of T with its continuations: the usage of its tag
\* and the use texts that follow, one space between each two, nothing before
\* the first text that is not empty
ExtendedUsage(T, i) ==
    JoinSpace(DropLeadingEmpty(
        <<ParsedTable[T][i].Usage>> \o UseTexts(T, i + 1, UseRun(T, i + 1))))

\* the loop loads the usage of field i of T when it comes to it: the field
\* is a blank-identifier or exported field that is not ignored
loadsUsage(T, i) ==
    /\ isMetadata(Fields(T)[i]) \/ isExported(Fields(T)[i])
    /\ ~IsIgnored(ParsedTable[T][i])

RECURSIVE consumed(_, _)
\* field j of T is one of the use fields taken up by the usage of a field
\* before it that the loop comes to
consumed(T, j) ==
    \E i \in 1..(j - 1) :
        /\ loadsUsage(T, i)
        /\ ~consumed(T, i)
        /\ j <= i + UseRun(T, i + 1)

\* C11: the flag that a field defines has for usage the tag's usage followed
\* by the use texts of the blank-identifier fields right after it, up to the
\* first field that is not named _ or has no use tag, each joined by one
\* space and with no leading space when the tag usage is empty; the loop goes
\* on after the last of these fields, and at no time is the loop of any
\* activation at a field that was taken up in this way.
C11_ExtendedUsage ==
    /\ [](\A k \in 1..Len(stack) :
             stack[k].i <= NumField(stack[k].T)
                => ~consumed(stack[k].T, stack[k].i))
    /\ [][Registers
          => /\ flags'[fullName].Usage = ExtendedUsage(top.T, top.i)
             /\ status' = "running"
                => stack'[Len(stack)].i = top.i + UseRun(top.T, top.i + 1) + 1
         ]_vars

\* Bind has returned nil on the struct of ExtendedUsage (two use fields),
\* Usage `flag:"url;;Usage starts here"` (two use fields, the second with a
\* flag tag that is never applied) and HideDefault (followed by a blank
\* field without a use tag)
C11_Witness ==
    /\ status = "done"
    /\ result = Nil
    /\ root = "ExtUsage"
    /\ fsKind = "pflag"
    /\ Separator = <<"-">>
    /\ opts.Prefix = <<>>
    /\ DOMAIN flags = {<<"e","x","t","e","n","d","e","d","-","u","s","a","g","e">>, <<"u","r","l">>, <<"h","i","d","e","-","d","e","f","a","u","l","t">>}
    /\ flags[<<"e","x","t","e","n","d","e","d","-","u","s","a","g","e">>].Usage = <<"E","x","t","e","n","d","e","d"," ","u","s","a","g","e",","," "," ","c","o","n","t","i","n","u","e"," ","u","s","a","g","e">>
    /\ flags[<<"u","r","l">>].Usage =
          <<"U","s","a","g","e"," ","s","t","a","r","t","s"," ","h","e","r","e"," ","a","n","d"," ","c","o","n","t","i","n","u","e","s"," ","h","e","r","e"," ","a","n","d"," ","e","n","d","s"," ","h","e","r","e",".">>
    /\ flags[<<"h","i","d","e","-","d","e","f","a","u","l","t">>].Usage = <<"H","i","d","e"," ","d","e","f","a","u","l","t">>

----------------------------------------------------------------------------
(* Names                                                                   *)

RECURSIVE Replace(_, _, _)
\* strings.Replace(s, old, new, -1) for a one-character old
Replace(s, old, new) ==
    IF s = <<>> THEN <<>>
    ELSE (IF Head(s) = old THEN new ELSE <<Head(s)>>)
         \o Replace(Tail(s), old, new)

\* fromCamelCaseTests: Camel -> Kebab
Kebab(camel) ==
    CASE camel = <<"I","D">>           -> <<"i","d">>
      [] camel = <<"N","e","w","I","D">>        -> <<"n","e","w","-","i","d">>
      [] camel = <<"F","A","A","d","d","r","e","s","s">>    -> <<"f","a","-","a","d","d","r","e","s","s">>
      [] camel = <<"U","R","L">>          -> <<"u","r","l">>
      [] camel = <<"S","e","r","v","e","r","U","R","L">>    -> <<"s","e","r","v","e","r","-","u","r","l">>
      [] camel = <<"A","P","I","S","e","r","v","e","r","U","R","L">> -> <<"a","p","i","-","s","e","r","v","e","r","-","u","r","l">>
      [] camel = <<"A","P","I","U","r","l","I","D">>     -> <<"a","p","i","-","u","r","l","-","i","d">>
      [] camel = <<"A","u","t","o","K","e","b","a","b">>    -> <<"a","u","t","o","-","k","e","b","a","b">>
      [] camel = <<"S","t","r","u","c","t","A","B","o","o","l">>  -> <<"s","t","r","u","c","t","-","a","-","b","o","o","l">>

TestedCamel ==
    {<<"I","D">>, <<"N","e","w","I","D">>, <<"F","A","A","d","d","r","e","s","s">>, <<"U","R","L">>, <<"S","e","r","v","e","r","U","R","L">>, <<"A","P","I","S","e","r","v","e","r","U","R","L">>,
     <<"A","P","I","U","r","l","I","D">>, <<"A","u","t","o","K","e","b","a","b">>, <<"S","t","r","u","c","t","A","B","o","o","l">>}

\* C12: for the nine names of the claim and each of the separators "-", ".",
\* "_" and "", FromCamelCase(name, sep) returns the kebab-case form listed
\* for the name with every "-" replaced by the separator.
C12_FromCamelCaseTable ==
    \A k \in 1..Len(outputs) :
        (inputs[k].fn = "FromCamelCase" /\ inputs[k].text \in TestedCamel)
        => outputs[k] = Replace(Kebab(inputs[k].text), "-", inputs[k].sep)

\* FromCamelCase("APIUrlID", ".") has returned "api.url.id"
C12_Witness ==
    /\ inputs = <<CamelCall(<<"A","P","I","U","r","l","I","D">>, <<".">>)>>
    /\ outputs = <<<<"a","p","i",".","u","r","l",".","i","d">>>>

\* the long name of the flag of the field the loop is at, before the prefix:
\* derived from the field's identifier when the tag gives no name, or the
\* registry is a PFlagSet and the parsed names are one string; else the
\* parsed name
longName ==
    IF \/ ~parsedTag.HasExplicitName
       \/ fsKind = "pflag" /\ parsedTag.Name = parsedTag.ShortName
    THEN FromCamelCase(field.Name, Separator)
    ELSE parsedTag.Name

\* C13: a step that defines the flag of a field defines it under the prefix
\* followed by the name derived from the Go identifier (FromCamelCase with
\* Separator) exactly when the tag gives no explicit name or the registry is
\* the extended one and the parsed long and short names are the same string,
\* and under the prefix followed by the explicit name otherwise; the
\* extended registry records the parsed short name as shorthand.  Untagged
\* AutoKebabCase is registered as auto-kebab-case; Short `flag:"s"` as short
\* with shorthand s under the extended registry and as s under the narrow
\* one.
C13_LongNameDerivation ==
    /\ [][Registers
          => /\ DOMAIN flags' = DOMAIN flags \cup {top.Prefix \o longName}
             /\ flags'[top.Prefix \o longName].ptr = here
             /\ flags'[top.Prefix \o longName].Shorthand =
                   IF fsKind = "pflag" THEN parsedTag.ShortName ELSE <<>>
         ]_vars
    /\ []((/\ root = "Names" /\ status = "done" /\ result = Nil
           /\ flags0 = <<>> /\ Separator = <<"-">> /\ opts.Prefix = <<>>)
          => /\ flags[<<"a","u","t","o","-","k","e","b","a","b","-","c","a","s","e">>].ptr = <<1>>
             /\ fsKind = "pflag"
                => /\ flags[<<"s","h","o","r","t">>].ptr = <<2>>
                   /\ flags[<<"s","h","o","r","t">>].Shorthand = <<"s">>
                   /\ <<"s">> \notin DOMAIN flags
             /\ fsKind = "std"
                => /\ flags[<<"s">>].ptr = <<2>>
                   /\ <<"s","h","o","r","t">> \notin DOMAIN flags)

\* Bind has returned nil on the name fields of ValidTestFlags and a pflag
\* registry: Short `flag:"s"` is the flag short with shorthand s, LongShort
\* `flag:"long,l"` the flag long with shorthand l
C13_Witness ==
    /\ status = "done"
    /\ result = Nil
    /\ root = "Names"
    /\ fsKind = "pflag"
    /\ Separator = <<"-">>
    /\ opts.Prefix = <<>>
    /\ DOMAIN flags = {<<"a","u","t","o","-","k","e","b","a","b","-","c","a","s","e">>, <<"s","h","o","r","t">>, <<"l","o","n","g">>, <<"r","l","o","n","g">>,
                       <<"d","i","f","f","e","r","e","n","t","-","f","l","a","g","-","n","a","m","e">>, <<"w","i","t","h","-","t","w","o","-","d","a","s","h">>, <<"b","o","t","h">>}
    /\ flags[<<"s","h","o","r","t">>].Shorthand = <<"s">>
    /\ flags[<<"l","o","n","g">>].Shorthand = <<"l">>
    /\ flags[<<"b","o","t","h">>].Shorthand = <<"a">>

\* the two name candidates of the tags a caller parses in either order, with
\* their leading dashes stripped
firstName == TrimLeft(Split(inputs[1].text, ",")[1], {"-"})

secondName == TrimLeft(Split(inputs[1].text, ",")[2], {"-"})

\* both tags of the pair are parsed
pairParsed ==
    /\ Len(inputs) = 2
    /\ inputs[1].fn = "newFlagTag"
    /\ Len(outputs) = 2

\* C14 (as stated): for every pair of name candidates a and b, the tags
\* "a,b" and "b,a" parse to the same LongName and the same ShortName.
C14_AsStated ==
    pairParsed => /\ outputs[1].Name = outputs[2].Name
                  /\ outputs[1].ShortName = outputs[2].ShortName

\* C14 (amended): for every pair of name candidates a and b whose lengths
\* differ once the leading dashes are stripped, the tags "a,b" and "b,a"
\* parse to the same names: LongName is the longer candidate, and ShortName
\* is the LongName if that is one character, else the shorter candidate if
\* it is at most one character, else empty.  "long,s" and "s,long" both
\* give LongName long, ShortName s.  Of two candidates of equal length the
\* one written first is the LongName.
C14_OrderOfNames ==
    /\ (pairParsed /\ Len(firstName) # Len(secondName)) =>
          LET long  == IF Len(firstName) > Len(secondName)
                       THEN firstName ELSE secondName
              short == IF Len(firstName) > Len(secondName)
                       THEN secondName ELSE firstName
          IN  \A k \in 1..2 :
                 /\ outputs[k].Name = long
                 /\ outputs[k].ShortName =
                       IF Len(long) = 1 THEN long
                       ELSE IF Len(short) <= 1 THEN short ELSE <<>>
    /\ (pairParsed /\ Len(firstName) = Len(secondName)) =>
          /\ outputs[1].Name = firstName
          /\ outputs[2].Name = secondName

\* newFlagTag has parsed "long,s" and "s,long" to LongName long, ShortName s
C14_Witness ==
    /\ inputs = <<TagCall(<<"l","o","n","g",",","s">>), TagCall(<<"s",",","l","o","n","g">>)>>
    /\ Len(outputs) = 2
    /\ outputs[1] = outputs[2]
    /\ outputs[1].Name = <<"l","o","n","g">>
    /\ outputs[1].ShortName = <<"s">>

\* C15 (as stated): parsing the tag "r,rlong" yields LongName rlong and an
\* empty ShortName.
C15_AsStated ==
    \A k \in 1..Len(outputs) :
        (inputs[k].fn = "newFlagTag" /\ inputs[k].text = <<"r",",","r","l","o","n","g">>)
        => /\ outputs[k].Name = <<"r","l","o","n","g">>
           /\ outputs[k].ShortName = <<>>

\* C15 (amended): parsing the tag "r,rlong" yields LongName rlong and
\* ShortName r: the one-letter candidate is the short name.
C15_ShortLongKeepsShort ==
    \A k \in 1..Len(outputs) :
        (inputs[k].fn = "newFlagTag" /\ inputs[k].text = <<"r",",","r","l","o","n","g">>)
        => /\ outputs[k].Name = <<"r","l","o","n","g">>
           /\ outputs[k].ShortName = <<"r">>
           /\ outputs[k].HasExplicitName

\* newFlagTag("r,rlong") has returned
C15_Witness ==
    /\ Len(outputs) >= 1
    /\ inputs[1] = TagCall(<<"r",",","r","l","o","n","g">>)
    /\ outputs[1].Name = <<"r","l","o","n","g">>
    /\ outputs[1].ShortName = <<"r">>

----------------------------------------------------------------------------
(* Display defaults                                                        *)

\* C16: after a successful Bind, every flag whose field tag lists
\* hide-default has an empty recorded display default, also when the tag
\* supplies a default literal and the field was zero.
C16_HideDefaultIsBlank ==
    (status = "done" /\ result = Nil /\ v = "struct" /\ flags0 = <<>>) =>
        \A n \in DOMAIN flags :
            tagOf(flags[n].ptr).HideDefault => flags[n].DefValue = <<>>

----------------------------------------------------------------------------
(* Overriding tags                                                         *)

\* the largest of a non-empty set of numbers
Max(S) == CHOOSE x \in S : \A y \in S : y <= x

\* the blank-identifier fields of the root struct that the loop comes to and
\* whose flag tag names the flag n
rootOverrides(n) ==
    {j \in 1..NumField(root) :
        /\ isMetadata(Fields(root)[j])
        /\ Fields(root)[j].hasTag
        /\ ~consumed(root, j)
        /\ rootTag(j).Name = n}

\* those that set a default literal, a display default, a usage
withLiteral(n) == {j \in rootOverrides(n) : rootTag(j).DefValue # <<>>}

withDisplay(n) ==
    {j \in rootOverrides(n) :
        rootTag(j).DefValue # <<>> \/ rootTag(j).HideDefault}

withUsage(n) == {j \in rootOverrides(n) : ParsedTable[root][j].Usage # <<>>
                                          \/ UseRun(root, j + 1) > 0}

\* the flag n shows the settings of the last overriding tag of the root
\* struct that gives each of them: the literal (that the flag's Value
\* accepts) as value, the literal or, with hide-default, nothing as display
\* default, and the usage with its continuations
OverridesApplied(n) ==
    /\ (/\ withLiteral(n) # {}
        /\ ValueSet(flags[n].kind, rootTag(Max(withLiteral(n))).DefValue).ok)
       => obj[flags[n].ptr] =
             ValueSet(flags[n].kind, rootTag(Max(withLiteral(n))).DefValue).v
    /\ withDisplay(n) # {}
       => flags[n].DefValue =
             IF rootTag(Max(withDisplay(n))).HideDefault THEN <<>>
             ELSE rootTag(Max(withDisplay(n))).DefValue
    /\ withUsage(n) # {}
       => flags[n].Usage = ExtendedUsage(root, Max(withUsage(n)))

\* C17: in the registry a successful Bind leaves behind, every flag named by
\* overriding tags of the bound struct shows what the last of them set: a
\* non-empty default literal is its value and display default, a non-empty
\* usage with its use continuations its usage, hide-default blanks the
\* display default, and empty settings leave the earlier ones; also when the
\* flag was defined in the same struct with a tag default of its own.
C17_OverrideTakesEffect ==
    (status = "done" /\ result = Nil /\ v = "struct" /\ flags0 = <<>>) =>
        \A n \in DOMAIN flags : OverridesApplied(n)

----------------------------------------------------------------------------
(* Types without a registration primitive                                  *)

\* the registry has no registration primitive for the kind k: a plain named
\* int type on either registry, float32 on the narrow one
noPrimitive(k) == k = "unsupported" \/ (fsKind = "std" /\ k = "float32")

\* C18: when bind, on a flag or pflag registry, reaches a leaf field whose
\* type the registry has no registration primitive for, the step defines no
\* flag and returns no error, the field's value stays what it was (a nil
\* pointer is allocated to the zero value), its default literal is not
\* applied, and the loop goes on with the next field.
C18_UnsupportedIsSkipped ==
    [][(AtLeaf /\ knownFlagSet /\ noPrimitive(field.Kind))
       => /\ flags' = flags
          /\ status' = "running"
          /\ result' = Nil
          /\ stack' = [stack EXCEPT ![Len(stack)].i = loaded.i + 1]
          /\ obj'[here] = IF obj[here] = NilV THEN Zero(field.Kind)
                          ELSE obj[here]
          /\ \A p \in DOMAIN obj : p # here => obj'[p] = obj[p]]_vars

\* Bind has returned nil on struct { Unsupported UnsupportedType `flag:";5"`;
\* Float32 *float32 `flag:";2"`; After bool } and a flag.FlagSet: only After
\* has a flag, Unsupported is 0 and Float32 points to 0
C18_Witness ==
    /\ status = "done"
    /\ result = Nil
    /\ root = "Unsupp"
    /\ fsKind = "std"
    /\ Separator = <<"-">>
    /\ opts.Prefix = <<>>
    /\ obj0[<<2>>] = NilV
    /\ DOMAIN flags = {<<"a","f","t","e","r">>}
    /\ obj[<<1>>] = Zero("unsupported")
    /\ obj[<<2>>] = Zero("float32")

----------------------------------------------------------------------------
(* Repeated Bind                                                           *)

\* Bind runs, or has run, on a flag or pflag registry that an earlier Bind
\* of the same struct left flags in
rebinding == calls >= 2 /\ v = "struct" /\ knownFlagSet /\ flags0 # <<>>

\* C19: a Bind call on the same struct and the registry that an earlier
\* Bind call populated does not panic and, when it returns, returns a
\* duplicate-name error, however many times it is repeated.
C19_RebindReturnsDuplicate ==
    rebinding =>
        /\ status # "panic"
        /\ status = "done"
           => /\ result # Nil
              /\ Contains(Error(result), <<"f","l","a","g"," ","r","e","d","e","f","i","n","e","d",":"," ">>)

\* Bind has returned on a fresh registry, after an earlier Bind of the same
\* struct value on a registry that was fresh too
rebound ==
    /\ status = "done"
    /\ v = "struct"
    /\ knownFlagSet
    /\ flags0 = <<>>
    /\ prev.set
    /\ prev.fresh

\* C20 (as stated): binding the same struct value a second time to a fresh
\* registry yields the same registry contents (flag names, short names,
\* values, display defaults, usage, hidden) as the first Bind produced on
\* its fresh registry.
C20_AsStated == rebound => View(flags, obj) = prev.view

\* the first of the two Binds left the field of the flag n as it found it
leftAlone(n) ==
    /\ flags[n].ptr \in DOMAIN prev.obj0
    /\ prev.obj0[flags[n].ptr] = obj0[flags[n].ptr]

\* C20: binding the same struct value a second time to a fresh registry
\* yields the same flag names, short names, values, usage and hidden as the
\* first Bind produced on its fresh registry, and the same display default
\* for every flag whose field the first Bind left as it found it.
C20_RebindSameButWrittenDefaults ==
    rebound =>
        /\ DOMAIN flags = DOMAIN prev.view
        /\ \A n \in DOMAIN flags :
              /\ [View(flags, obj)[n] EXCEPT !.DefValue = <<>>]
                 = [prev.view[n] EXCEPT !.DefValue = <<>>]
              /\ leftAlone(n)
                 => View(flags, obj)[n].DefValue = prev.view[n].DefValue

\* the second Bind of the struct with tag defaults has returned: the flag of
\* a field the first Bind set from its tag shows another default, the flag of
\* a field it left alone the same one
C20_Witness ==
    /\ rebound
    /\ root = "Defaults"
    /\ result = Nil
    /\ \E n \in DOMAIN flags :
          /\ ~leftAlone(n)
          /\ View(flags, obj)[n].DefValue # prev.view[n].DefValue
    /\ \E n \in DOMAIN flags :
          /\ leftAlone(n)
          /\ View(flags, obj)[n].DefValue # <<>>
          /\ View(flags, obj)[n].DefValue = prev.view[n].DefValue

\* the loop is at a field whose pointer implements Binder
atBinder ==
    /\ AtField
    /\ isExported(field) /\ ~isMetadata(field)
    /\ ~IsIgnored(parsedTag)
    /\ field.Kind = "struct"
    /\ field.Elem \in BinderTypes

\* what the FlagBind of the tests registers under prefix: its custom flag
customOf(prefix) == prefix \o <<"c","u","s","t","o","m">>

\* C21: at a field that implements Binder (through its pointer) bind
\* registers no flag for the field itself and does not walk it: the step
\* calls the field's FlagBind once, on the same registry, with the prefix of
\* the nested-struct rules and an Option that reproduces the caller's
\* options (FlagBind defines its flag under that prefix and its Bind call
\* runs with that prefix and the caller's NoAutoFlatten), and the caller's
\* loop goes on after the field.  A top-level value that implements Binder
\* is handed to FlagBind before the target is validated: for a nil pointer
\* Bind never returns ErrorInvalidType, and for a struct FlagBind's flag is
\* there before the first field is looked at.
C21_BinderIsDelegated ==
    /\ [][atBinder =>
            LET pre == expectedPrefix(top, top.T, top.i)
                new == DOMAIN flags' \ DOMAIN flags
            IN  /\ fullName \notin new
                /\ new \subseteq {customOf(pre)}
                /\ IF customOf(pre) \in DOMAIN flags
                   THEN /\ flags' = flags
                        /\ status' = "done"
                        /\ result' # Nil
                        /\ Contains(Error(result'), <<"f","l","a","g"," ","r","e","d","e","f","i","n","e","d",":"," ">>)
                   ELSE /\ status' = "running"
                        /\ Len(stack') = Len(stack) + 1
                        /\ stack'[Len(stack)].i = loaded.i + 1
                        /\ stack'[Len(stack')].T = field.Elem
                        /\ stack'[Len(stack')].path = here
                        /\ stack'[Len(stack')].i = 1
                        /\ stack'[Len(stack')].Prefix = pre
                        /\ stack'[Len(stack')].NoAutoFlatten
                           = top.NoAutoFlatten
                        /\ knownFlagSet => new = {customOf(pre)}
                        /\ knownFlagSet => flags'[customOf(pre)].ptr
                              \in {Append(here, k) : k \in 1..NumField(field.Elem)}]_vars
    /\ [](v = "nilbinder" => status \in {"idle", "panic"} /\ flags = <<>>)
    /\ []((/\ v = "struct" /\ root \in BinderTypes /\ knownFlagSet
           /\ status = "running")
          => customOf(opts.Prefix) \in DOMAIN flags)

\* Bind on struct { Before bool; Bound ValidTestFlags } is in the Bind that
\* the FlagBind of Bound called, with custom defined under the prefix bound/
C21_Witness ==
    /\ root = "HasBinder"
    /\ Separator = <<"/">>
    /\ fsKind = "pflag"
    /\ opts.Prefix = <<>>
    /\ status = "running"
    /\ Len(stack) = 2
    /\ top.T = "BinderT"
    /\ top.Prefix = <<"b","o","u","n","d","/">>
    /\ DOMAIN flags = {<<"b","e","f","o","r","e">>, <<"b","o","u","n","d","/","c","u","s","t","o","m">>}

\* C22: Bind on a non-nil pointer to a struct runs to completion, also for
\* a struct type that refers to itself through a pointer field: its
\* recursion never exhausts the stack, and every activation of bind is as
\* deep in the call stack as the struct it works on is nested in the struct
\* being bound.
C22_BindTerminates ==
    v = "struct" =>
        /\ status # "overflow"
        /\ \A k \in 1..Len(stack) : Len(stack[k].path) = k - 1

\* the characters that separate a prefix from a name: the configured
\* Separator and the three appendSeparator looks for
separators == {Separator, <<"-">>, <<".">>, <<"_">>}

\* p ends in exactly one separator
endsInOneSeparator(p) ==
    /\ \E s \in separators : HasSuffix(p, s)
    /\ \A s, t \in separators : ~HasSuffix(p, s \o t)

\* C23: at every recursion level, and so for every leaf name built there,
\* the prefix in use is empty or ends in exactly one separator: the
\* configured Separator, or one of -, ., _ that it ended in already; this
\* holds for the prefix the caller gave with the Prefix option as well.
C23_PrefixEndsInOneSeparator ==
    \A k \in 1..Len(stack) :
        stack[k].Prefix = <<>> \/ endsInOneSeparator(stack[k].Prefix)

\* a tag with an options segment has been parsed
optionsParsed ==
    /\ Len(inputs) = 1
    /\ inputs[1].fn = "newFlagTag"
    /\ Len(Split(inputs[1].text, ";")) >= 4
    /\ Len(outputs) = 1

\* the comma-separated tokens of the options segment, in lower case
optionTokens ==
    LET toks == Split(Split(inputs[1].text, ";")[4], ",")
    IN  {ToLower(toks[k]) : k \in DOMAIN toks}

\* C24 (as stated): a token of the options segment that is not, whatever its
\* case, one of hidden, hide-default, flatten has no effect, and each of
\* Hidden, HideDefault, Flatten is set exactly when its own token is
\* present, independently of the other two.
C24_AsStated ==
    optionsParsed =>
        /\ outputs[1].Hidden = (<<"h","i","d","d","e","n">> \in optionTokens)
        /\ outputs[1].HideDefault = (<<"h","i","d","e","-","d","e","f","a","u","l","t">> \in optionTokens)
        /\ outputs[1].Flatten = (<<"f","l","a","t","t","e","n">> \in optionTokens)

\* C24: a token of the options segment that does not, whatever its case,
\* contain one of hidden, hide-default, flatten has no effect, and each of
\* Hidden, HideDefault, Flatten is set exactly when some token contains its
\* own word, independently of the other two.
C24_OptionsBySubstring ==
    optionsParsed =>
        /\ outputs[1].Hidden = (\E t \in optionTokens : Contains(t, <<"h","i","d","d","e","n">>))
        /\ outputs[1].HideDefault
           = (\E t \in optionTokens : Contains(t, <<"h","i","d","e","-","d","e","f","a","u","l","t">>))
        /\ outputs[1].Flatten = (\E t \in optionTokens : Contains(t, <<"f","l","a","t","t","e","n">>))
        /\ outputs[1] = [ZeroTag EXCEPT !.Hidden = outputs[1].Hidden,
                                        !.HideDefault = outputs[1].HideDefault,
                                        !.Flatten = outputs[1].Flatten]

\* the tag ";;;unhidden,FLATTEN" has been parsed: Hidden and Flatten are
\* set, HideDefault is not
C24_Witness ==
    /\ optionsParsed
    /\ inputs[1].text = <<";",";",";","u","n","h","i","d","d","e","n",",","F","L","A","T","T","E","N">>
    /\ outputs[1].Hidden
    /\ outputs[1].Flatten
    /\ ~outputs[1].HideDefault

\* the tags parsed so far, with the tag texts they were parsed from
parsedTags == {k \in 1..Len(outputs) : inputs[k].fn = "newFlagTag"}

\* the name candidates of the tag text: the first two comma-separated parts
\* of its first segment, leading dashes stripped
candidates(text) ==
    LET names == Split(Split(text, ";")[1], ",")
    IN  {TrimLeft(names[k], {"-"}) : k \in DOMAIN names \cap {1, 2}}

\* C25: the settings parsed from any tag have a ShortName that is empty or
\* one character, a LongName at least as long as the ShortName, and
\* HasExplicitName exactly when LongName is not empty; a LongName of one
\* character is the ShortName as well; and a name candidate of more than one
\* character is never the shorthand (of `lg,long` only long is kept).
C25_ParsedNamesAreWellFormed ==
    \A k \in parsedTags :
        /\ Len(outputs[k].ShortName) <= 1
        /\ Len(outputs[k].Name) >= Len(outputs[k].ShortName)
        /\ outputs[k].HasExplicitName = (outputs[k].Name # <<>>)
        /\ Len(outputs[k].Name) = 1 => outputs[k].ShortName = outputs[k].Name
        /\ inputs[k].text # <<>> =>
              /\ outputs[k].Name \in candidates(inputs[k].text)
              /\ \A c \in candidates(inputs[k].text) :
                    Len(c) >= Len(outputs[k].Name) => Len(c) = Len(outputs[k].Name)
              /\ outputs[k].ShortName # <<>>
                 => outputs[k].ShortName \in candidates(inputs[k].text)

\* the tags "ab,long" and "long,ab" have been parsed: LongName long, no
\* ShortName
C25_Witness ==
    /\ Len(outputs) = 2
    /\ inputs[1].text = <<"a","b",",","l","o","n","g">>
    /\ outputs[1].Name = <<"l","o","n","g">>
    /\ outputs[1].ShortName = <<>>
    /\ outputs[2].Name = <<"l","o","n","g">>
    /\ outputs[2].ShortName = <<>>

RECURSIVE LexLE(_, _)
\* the field at path p comes no later than the one at q in declaration
\* order, depth first
LexLE(p, q) ==
    IF p = <<>> THEN TRUE
    ELSE IF q = <<>> THEN FALSE
    ELSE IF p[1] # q[1] THEN p[1] < q[1]
    ELSE LexLE(Tail(p), Tail(q))

\* the step ends Bind with an error raised at the field the loop is at
failsHere ==
    /\ AtField
    /\ knownFlagSet
    /\ status' = "done"
    /\ result' # Nil

\* C26: Bind does not roll back.  When a step at field k ends Bind with an
\* error (a tag default the value rejects, a name defined twice, an override
\* of a flag that does not exist), every flag in the registry stays there
\* with its settings, every other field of the struct keeps its value, tag
\* defaults included, and the flags this Bind has defined are those of
\* fields up to k in declaration order, depth first: none of a later field.
C26_NoRollback ==
    [][failsHere =>
          /\ \A n \in DOMAIN flags :
                n \in DOMAIN flags' /\ flags'[n] = flags[n]
          /\ \A p \in DOMAIN obj :
                p # here => p \in DOMAIN obj' /\ obj'[p] = obj[p]
          /\ \A n \in DOMAIN flags' \ DOMAIN flags0 :
                LexLE(flags'[n].ptr, here)]_vars

\* Bind on struct { Int int `flag:";5"`; Number int `flag:"num;five"`; Last
\* bool } has returned the error of Number: the flags int and num are
\* defined, Int holds its tag default 5, and Last has no flag
C26_Witness ==
    /\ status = "done"
    /\ result # Nil
    /\ root = "BadSecond"
    /\ fsKind = "pflag"
    /\ opts.Prefix = <<>>
    /\ flags0 = <<>>
    /\ IsZero(obj0[<<1>>])
    /\ obj[<<1>>].n = 5
    /\ DOMAIN flags = {<<"i","n","t">>, <<"n","u","m">>}
    /\ flags[<<"i","n","t">>].ptr = <<1>>
    /\ <<"l","a","s","t">> \notin DOMAIN flags

\* the loop passes over the field f: it is unexported, or tagged `flag:"-"`
passedOver(f) ==
    \/ ~isExported(f) /\ ~isMetadata(f)
    \/ f.hasTag /\ Split(f.Tag, ";")[1] = <<"-">>

\* the field at p, or a struct field it lies in, is passed over
protected(p) ==
    \E k \in 1..Len(p) : passedOver(fieldAt(SubSeq(p, 1, k)))

\* the variable that the FlagBind of the tests binds itself
binderOwn(p) ==
    /\ typeAt(root, p) \in BinderTypes
    /\ fieldAt(p).Name = <<"c","u","s","t","o","m">>

\* C27: Bind changes a field of the struct only if the field is exported
\* and not ignored.  An unexported field and a field tagged `flag:"-"` hold
\* the value they had when Bind was called, a nil pointer among them stays
\* nil, and in a struct that Bind allocates they are as allocated (a field's
\* own FlagBind apart, which binds its variable itself); and when Bind has
\* returned nil, every
\* exported, not ignored pointer field it came by is allocated, also one of
\* a type that has no flag because the registry cannot hold it.
C27_OnlyBoundFieldsChange ==
    v = "struct" =>
        /\ \A p \in DOMAIN obj0 :
              (protected(p) /\ ~binderOwn(p))
              => p \in DOMAIN obj /\ obj[p] = obj0[p]
        /\ \A p \in DOMAIN obj \ DOMAIN obj0 :
              (protected(p) /\ ~binderOwn(p))
              => obj[p] \in {NilV, StructV} \/ IsZero(obj[p])
        /\ (status = "done" /\ result = Nil)
           => \A p \in DOMAIN obj :
                 (fieldAt(p).Ptr /\ ~protected(p)) => obj[p] # NilV

\* Bind on struct { Unsupported UnsupportedType `flag:";5"`; Float32
\* *float32 `flag:";2"`; After bool } and a flag registry has returned nil:
\* Float32 was nil and is allocated, and has no flag
C27_Witness ==
    /\ status = "done"
    /\ result = Nil
    /\ root = "Unsupp"
    /\ fsKind = "std"
    /\ obj0[<<2>>] = NilV
    /\ obj[<<2>>] # NilV
    /\ \A n \in DOMAIN flags : flags[n].ptr # <<2>>
    /\ DOMAIN flags # {}

RECURSIVE RemoveAll(_, _)
\* s without the occurrences of sep, taken from the left
RemoveAll(s, sep) ==
    IF s = <<>> \/ sep = <<>> THEN s
    ELSE IF HasPrefix(s, sep) THEN RemoveAll(SubSeq(s, Len(sep) + 1, Len(s)), sep)
    ELSE <<Head(s)>> \o RemoveAll(Tail(s), sep)

\* the calls of FromCamelCase made so far
camelCalls == {k \in 1..Len(outputs) : inputs[k].fn = "FromCamelCase"}

\* C28: for every identifier of letters and every separator without a
\* letter, FromCamelCase(name, sep) without the occurrences of the separator
\* is the name in lower case (so it is with the empty separator); it holds no
\* capital letter, and with a separator that is not empty it neither starts
\* nor ends with the separator nor holds two separators in a row.
C28_FromCamelCaseKeepsLetters ==
    \A k \in camelCalls :
        LET sep == inputs[k].sep
            out == outputs[k]
        IN  /\ RemoveAll(out, sep) = ToLower(inputs[k].text)
            /\ \A i \in DOMAIN out : ~IsUpper(out[i])
            /\ sep = <<>> => out = ToLower(inputs[k].text)
            /\ sep # <<>> =>
                  /\ ~HasPrefix(out, sep)
                  /\ ~HasSuffix(out, sep)
                  /\ ~Contains(out, sep \o sep)

\* FromCamelCase("aCDb", "::") has returned "a::c::db"
C28_Witness ==
    /\ inputs = <<CamelCall(<<"a", "C", "D", "b">>, <<":",":">>)>>
    /\ outputs = <<<<"a",":",":","c",":",":","d","b">>>>

\* the options segment of the tag of f lists the word
lists(f, word) ==
    /\ Len(Split(f.Tag, ";")) >= 4
    /\ Contains(ToLower(Split(f.Tag, ";")[4]), word)

\* the loop is at an overriding tag that names a flag of the registry
overrides ==
    /\ AtOverride
    /\ knownFlagSet
    /\ loaded.tag.Name \in DOMAIN flags

\* C29: on a pflag registry an overriding tag leaves its flag hidden exactly
\* when the overriding tag itself lists hidden, whatever the flag was, so
\* that a flag hidden by its field's tag is shown again by an override that
\* does not list hidden; on a flag registry an override leaves the hidden
\* status of every flag alone.  No other flag's status changes.
C29_OverrideSetsHidden ==
    [][overrides =>
          /\ flags'[loaded.tag.Name].Hidden =
                IF fsKind = "pflag" THEN lists(field, <<"h","i","d","d","e","n">>)
                ELSE flags[loaded.tag.Name].Hidden
          /\ \A n \in DOMAIN flags :
                n # loaded.tag.Name => flags'[n].Hidden = flags[n].Hidden]_vars

\* Bind on struct { Secret bool `flag:"secret;;;hidden"`; _ struct{}
\* `flag:"secret;;shown"` } and a pflag registry has returned nil: the flag
\* secret is not hidden
C29_Witness ==
    /\ status = "done"
    /\ result = Nil
    /\ root = "Unhide"
    /\ fsKind = "pflag"
    /\ DOMAIN flags = {<<"s","e","c","r","e","t">>}
    /\ ~flags[<<"s","e","c","r","e","t">>].Hidden
    /\ flags[<<"s","e","c","r","e","t">>].Usage = <<"s","h","o","w","n">>

\* the default literal of the overriding tag the loop is at
literal == Split(field.Tag, ";")[2]

\* the loop is at an overriding tag whose default literal the value of its
\* flag rejects
overrideRejected ==
    /\ overrides
    /\ Len(Split(field.Tag, ";")) >= 2
    /\ literal # <<>>
    /\ ~ValueSet(flags[loaded.tag.Name].kind, literal).ok

\* the step reports no error and the loop goes on after the tag and its
\* usage fields
goesOn ==
    /\ status' = "running"
    /\ result' = Nil
    /\ stack' = [stack EXCEPT ![Len(stack)].i = loaded.i + 1]

\* C30 (as stated): when an overriding tag supplies a default literal that
\* its flag's value rejects, Bind reports no error for it: the value is left
\* as it was, the display default is the rejected literal, and the traversal
\* goes on.
C30_AsStated ==
    [][overrideRejected =>
          /\ goesOn
          /\ obj' = obj
          /\ flags'[loaded.tag.Name].DefValue = literal]_vars

\* C30: when an overriding tag supplies a default literal that its flag's
\* value rejects, Bind reports no error for it: the value is what its Set
\* left (zero for the int and bool values of the flag packages, which store
\* before they return the error; as it was for a Value that stores nothing
\* then), the display default is the rejected literal, or empty if the tag
\* lists hide-default, and the traversal goes on.
C30_RejectedOverrideIsSilent ==
    [][overrideRejected =>
          LET f == flags[loaded.tag.Name] IN
          /\ goesOn
          /\ obj' = [obj EXCEPT ![f.ptr] =
                        IF f.kind = "value" THEN @ ELSE Zero(f.kind)]
          /\ flags'[loaded.tag.Name].DefValue =
                IF lists(field, <<"h","i","d","e","-","d","e","f","a","u","l","t">>) THEN <<>> ELSE literal]_vars

\* Bind on struct { Level int; Val TestValue; After bool; _ struct{}
\* `flag:"level;x"`; _ struct{} `flag:"val;asdf"`; _ struct{}
\* `flag:"after;maybe;;hide-default"` } with Level set to 43 has returned
\* nil: Level is 0 and the display default of level is x
C30_Witness ==
    /\ status = "done"
    /\ result = Nil
    /\ root = "RejectedOverride"
    /\ obj0[<<1>>].n = SampleInt
    /\ obj[<<1>>].n = 0
    /\ flags[<<"l","e","v","e","l">>].DefValue = <<"x">>
    /\ flags[<<"v","a","l">>].DefValue = <<"a","s","d","f">>
    /\ flags[<<"a","f","t","e","r">>].DefValue = <<>>
====
